---------------------------- MODULE Spec2Model ----------------------------
(***************************************************************************)
(* A model of the poker-rs server: the per-table game engine               *)
(* (poker_server/src/game.rs), the session registry                        *)
(* (poker_server/src/server.rs) and the connection handler and supervisor  *)
(* (poker_server/src/main.rs).                                             *)
(*                                                                         *)
(* The PokerGame struct is the record held by the variable `game`; every   *)
(* method of PokerGame is an operator from a game record to the set of     *)
(* game records the method can leave behind (a set, because the deck       *)
(* shuffle and the iteration order of a HashMap are not determined by the  *)
(* code).                                                                  *)
(***************************************************************************)
EXTENDS Integers, Sequences, FiniteSets, TLC

VARIABLES
    game,       \* the PokerGame of "main_table" (game.rs:18-35)
    result,     \* what the last call into the engine returned
    sit_outs,   \* how many times sit_out has been called
    actions,    \* how many actions handle_action has accepted
    street_actors,      \* the players whose action was accepted on the current street
    pc,         \* where each connection's handle_connection task is
    server_lock,        \* the task holding the Mutex<PokerServer>, 0 when free
    connection_count,   \* PokerServer::connection_count
    ip_connections,     \* PokerServer::ip_connections (0: no entry)
    connected,          \* the players with ServerPlayer::connected and a ws_sender
    player_sessions,    \* the keys of PokerServer::player_sessions
    channel,    \* the table's broadcast channel: events sent, not yet received
    emitted,    \* how many events the engine has sent on the channel
    tasks,      \* the spawned tasks that have not sent their frame yet
    queues,     \* each connection's outbound mpsc queue
    server_players,     \* PokerServer::players: the ServerPlayer of each registered player
    tokens,     \* the tokens left in each connection's RateLimiter
    burst       \* history: the Action frames each connection has sent in one
                \* unbroken run from its full bucket, no second gone by; -1 after the run is broken

VARIABLES
    now,          \* the server clock, in steps of ClockStep milliseconds
    nonce_cache,  \* NonceCache.data: the instant each cached nonce was inserted at
    accepted_at,  \* history: the instant each nonce was last accepted at
    verified,     \* what the last SignedMessage::verify returned
    shutdown,     \* ShutdownState.should_shutdown
    supervisor,   \* main: where the accept loop stands, and its connection handles
    backlog,      \* the connections waiting on the listener
    inactivity,   \* main's inactivity_task: asleep, or about to force the stage
    bucket,       \* the TokenBucketRateLimiter that several tasks share
    threads,      \* where each caller of allow() stands, and what it has read
    wall,         \* the system clock in milliseconds, the limiter created at 0
    admitted,     \* history: how many calls of allow() returned true
    args,         \* the arguments of a call of a pure function
    returned      \* what the call returned

engine_vars == <<game, result, sit_outs, actions, street_actors>>
server_vars == <<pc, server_lock, connection_count, ip_connections, connected,
                 player_sessions, channel, emitted, tasks, queues>>
registry_vars == <<server_players, tokens, burst>>
protocol_vars == <<now, nonce_cache, accepted_at, verified>>
main_vars == <<shutdown, supervisor, backlog, inactivity>>
call_vars == <<args, returned>>
limiter_vars == <<bucket, threads, wall, admitted>>
other_vars == <<protocol_vars, main_vars, call_vars, limiter_vars>>
vars == <<engine_vars, server_vars, registry_vars, other_vars>>

-----------------------------------------------------------------------------
(* Program constants *)

I32_MAX == 2147483647
MAX_POT == 1073741823
SMALL_BLIND == 5
BIG_BLIND == 10
MAX_BET_MULTIPLIER == 10
MAX_BET_PER_HAND == 100000
MAX_CONNECTIONS == 100
MAX_CONNECTIONS_PER_IP == 5
MESSAGE_TIMESTAMP_MAX_DIFF_MS == 30000
NONCE_EXPIRY_MS == 60000

(* Bounds of the model *)

\* handle_action is explored for hands 1..MaxHands; the hand after that is
\* started (by end_hand) but not played.
MaxHands == 1

\* The player identifiers that may be seated.
Ids == {"p1", "p2"}

\* The stacks each player may be seated with (add_player's `chips`).
Stacks == [p1 |-> {50, MAX_POT}, p2 |-> {200}]

\* sit_out is called at most MaxSitOuts times.
MaxSitOuts == 1

\* handle_action accepts at most MaxActions actions in a behaviour.
MaxActions == 5

\* The connections the accept loop takes, and those of them that send messages.
MaxConns == 6
MaxTalkers == 2

\* The events the engine sends on the broadcast channel.
MaxEvents == 2

\* The Error frames a connection is sent for amounts that do not parse.
MaxErrors == 1

\* The amounts Bet and Raise are called with.
BetAmounts == {0, 20}
RaiseAmounts == {50}

\* Option::None for current_player_id
NoPlayer == "none"

\* The size of a connection's token bucket (RateLimiter::new gives it 100)
MaxTokens == 2

\* The largest amount of a pot that is split
MaxSplit == 25

\* NONCE_CACHE_SIZE, which is 1000 in the program
MaxCache == 2

\* The tasks that call allow() on one TokenBucketRateLimiter at the same time
MaxCallers == 2

\* refill_rate of that limiter; its max_tokens is MaxTokens
RefillPerSecond == 1

\* The seconds the system clock advances while they call
MaxSeconds == 2

\* The clock is read in steps of ClockStep milliseconds, MaxTicks times
ClockStep == MESSAGE_TIMESTAMP_MAX_DIFF_MS
StartClock == 2 * ClockStep
MaxTicks == 3

-----------------------------------------------------------------------------
(* Sequences *)

Min(a, b) == IF a < b THEN a ELSE b
Max(a, b) == IF a > b THEN a ELSE b

\* i32 saturating arithmetic
\* i32::saturating_add, saturating_sub and saturating_mul (the engine never
\* comes near i32::MIN)
SatAdd(a, b) == IF b > 0 /\ a > I32_MAX - b THEN I32_MAX ELSE a + b
SatSub(a, b) == IF b < 0 /\ a > I32_MAX + b THEN I32_MAX ELSE a - b
SatMul(a, b) == IF a > 0 /\ b > 0 /\ b > I32_MAX \div a THEN I32_MAX ELSE a * b

Range(s) == {s[i] : i \in 1..Len(s)}

\* Iterator::position: the 1-based index of the first x in s, 0 if absent
Position(s, x) ==
    IF x \in Range(s) THEN CHOOSE i \in 1..Len(s) : s[i] = x /\ \A j \in 1..(i-1) : s[j] # x
    ELSE 0

\* s with x inserted so that it becomes element number i
InsertAt(s, i, x) == SubSeq(s, 1, i - 1) \o <<x>> \o SubSeq(s, i, Len(s))

\* slice::sort_by / sort_by_key: a stable sort; Before(a, b) iff a orders strictly
\* before b.  Element i lands behind the elements that order before it and the
\* equal ones that stood before it.
SortBy(s, Before(_, _)) ==
    LET place(i) == 1 + Cardinality({j \in 1..Len(s) :
                        Before(s[j], s[i]) \/ (~Before(s[i], s[j]) /\ j < i)})
    IN  [k \in 1..Len(s) |-> s[CHOOSE i \in 1..Len(s) : place(i) = k]]

RECURSIVE SumSeq(_)
SumSeq(s) == IF s = <<>> THEN 0 ELSE s[1] + SumSeq(Tail(s))

-----------------------------------------------------------------------------
(* Cards (poker_protocol/src/types.rs) *)

Suits == <<"Clubs", "Diamonds", "Hearts", "Spades">>
Ranks == <<2, 3, 4, 5, 6, 7, 8, 9, 10, 11, 12, 13, 14>>

Card(suit, rank) == [suit |-> suit, rank |-> rank]

SuitGlyph(suit) ==
    CASE suit = "Clubs" -> "c" [] suit = "Diamonds" -> "d"
      [] suit = "Hearts" -> "h" [] suit = "Spades" -> "s"

RankGlyph(rank) ==
    CASE rank = 11 -> "J" [] rank = 12 -> "Q" [] rank = 13 -> "K" [] rank = 14 -> "A"
      [] OTHER -> ToString(rank)

\* Card::to_string: the rank glyph followed by the suit glyph
CardToString(c) == RankGlyph(c.rank) \o SuitGlyph(c.suit)

CardsToStrings(cards) == [i \in 1..Len(cards) |-> CardToString(cards[i])]

\* The 52 cards in the order create_deck pushes them, before the shuffle
FreshDeck == [i \in 1..52 |-> Card(Suits[((i - 1) \div 13) + 1], Ranks[((i - 1) % 13) + 1])]

\* A shuffled deck whose last cards are `top` (deal_card pops from the end, so
\* top[Len(top)] is dealt first); the other cards keep the order of FreshDeck.
DeckEndingWith(top) == SelectSeq(FreshDeck, LAMBDA c : c \notin Range(top)) \o top

\* The outcomes of the shuffle that the model explores, written in dealing order.
Deals ==
    { \* aces, kings, queens in the hole; board 7c 8c 9c Jd 3d
      << Card("Spades", 14), Card("Spades", 13), Card("Spades", 12),
         Card("Hearts", 14), Card("Hearts", 13), Card("Hearts", 12),
         Card("Clubs", 7), Card("Clubs", 8), Card("Clubs", 9), Card("Diamonds", 11), Card("Diamonds", 3) >>,
      \* the board plays for everybody: 10 J Q K A of mixed suits
      << Card("Clubs", 2), Card("Diamonds", 2), Card("Hearts", 3),
         Card("Clubs", 4), Card("Diamonds", 5), Card("Hearts", 7),
         Card("Spades", 10), Card("Hearts", 11), Card("Clubs", 12), Card("Diamonds", 13), Card("Spades", 14) >> }

Reverse(s) == [i \in 1..Len(s) |-> s[Len(s) + 1 - i]]

Shuffles == {DeckEndingWith(Reverse(d)) : d \in Deals}

-----------------------------------------------------------------------------
(* HandEvaluation (poker_protocol/src/types.rs) *)

\* HandRank, in the order its derived Ord gives
HandRanks == <<"HighCard", "Pair", "TwoPair", "ThreeOfAKind", "Straight", "Flush",
               "FullHouse", "FourOfAKind", "StraightFlush">>

HandEvaluation(rank, primary_rank, tiebreakers) ==
    [rank |-> rank, primary_rank |-> primary_rank, tiebreakers |-> tiebreakers]

\* Vec<i32>::cmp: a < b lexicographically, a proper prefix being smaller
VecLess(a, b) ==
    \E k \in 1..(Len(b)) :
        /\ \A j \in 1..(k - 1) : j <= Len(a) /\ a[j] = b[j]
        /\ k - 1 <= Len(a)
        /\ (k > Len(a) \/ a[k] < b[k])

\* impl Ord for HandEvaluation: a.cmp(b) = Less
EvalLess(a, b) ==
    LET ra == Position(HandRanks, a.rank)
        rb == Position(HandRanks, b.rank)
    IN  \/ ra < rb
        \/ ra = rb /\ a.primary_rank < b.primary_rank
        \/ ra = rb /\ a.primary_rank = b.primary_rank /\ VecLess(a.tiebreakers, b.tiebreakers)

RanksOf(cards) == [i \in 1..Len(cards) |-> cards[i].rank]

\* ranks.sort(); ranks.reverse()
SortedDesc(ranks) == SortBy(ranks, LAMBDA a, b : a > b)

\* iter().take(n)
Take(s, n) == SubSeq(s, 1, Min(n, Len(s)))

\* the largest rank of the cards that is not in `used`, 0 if there is none
BestKicker(cards, used) ==
    LET rest == Range(RanksOf(cards)) \ used
    IN  IF rest = {} THEN 0 ELSE CHOOSE r \in rest : \A q \in rest : q <= r

high_card(cards) ==
    LET ranks == SortedDesc(RanksOf(cards))
    IN  HandEvaluation("HighCard", IF ranks = <<>> THEN 0 ELSE ranks[1], Take(ranks, 5))

pair(cards, pair_rank) ==
    LET ranks == SortedDesc(RanksOf(cards))
    IN  HandEvaluation("Pair", pair_rank, Take(SelectSeq(ranks, LAMBDA r : r # pair_rank), 3))

two_pair(cards, high_pair, low_pair) ==
    HandEvaluation("TwoPair", high_pair, <<low_pair, BestKicker(cards, {high_pair, low_pair})>>)

three_of_a_kind(cards, three_rank) ==
    LET ranks == SortedDesc(RanksOf(cards))
    IN  HandEvaluation("ThreeOfAKind", three_rank, Take(SelectSeq(ranks, LAMBDA r : r # three_rank), 2))

straight(straight_high) == HandEvaluation("Straight", straight_high, <<straight_high>>)

\* HandEvaluation::straight_with_wheel
straight_with_wheel == HandEvaluation("Straight", 5, <<5, 4, 3, 2, 1>>)

flush(flush_cards) ==
    LET ranks == SortedDesc(RanksOf(flush_cards))
    IN  HandEvaluation("Flush", IF ranks = <<>> THEN 0 ELSE ranks[1], ranks)

full_house(three_rank, pair_rank) == HandEvaluation("FullHouse", three_rank, <<pair_rank>>)

four_of_a_kind(cards, four_rank) ==
    HandEvaluation("FourOfAKind", four_rank, <<BestKicker(cards, {four_rank})>>)

straight_flush(straight_high) == HandEvaluation("StraightFlush", straight_high, <<straight_high>>)

-----------------------------------------------------------------------------
(* The evaluator (game.rs:864-1099).  Each check_* is the set of the values   *)
(* the function can return: empty for None, and more than one element where  *)
(* the result depends on the iteration order of the rank_counts HashMap.     *)

\* rank_counts[rank]
RankCount(cards, rank) == Cardinality({i \in 1..Len(cards) : cards[i].rank = rank})

\* the keys of rank_counts whose count satisfies Test
RanksCounted(cards, Test(_)) == {r \in Range(RanksOf(cards)) : Test(RankCount(cards, r))}

\* get_flush_cards: the first suit with five cards or more, its five highest cards
get_flush_cards(cards) ==
    LET OfSuit(suit) == SelectSeq(cards, LAMBDA c : c.suit = suit)
        full == SelectSeq(Suits, LAMBDA suit : Len(OfSuit(suit)) >= 5)
    IN  IF full = <<>> THEN {}
        ELSE {Take(Reverse(SortBy(OfSuit(full[1]), LAMBDA a, b : a.rank < b.rank)), 5)}

HasWheel(ranks) == {2, 3, 4, 5, 14} \subseteq Range(ranks)

RECURSIVE StraightScan(_, _, _, _)
\* the loop of check_straight_from_cards over the sorted, deduplicated ranks
StraightScan(ranks, i, consecutive, straight_high) ==
    IF i > Len(ranks)
    THEN IF consecutive >= 5 /\ ranks[Len(ranks)] > straight_high
         THEN ranks[Len(ranks)] ELSE straight_high
    ELSE IF ranks[i] = ranks[i - 1] + 1
         THEN StraightScan(ranks, i + 1, consecutive + 1, straight_high)
         ELSE StraightScan(ranks, i + 1, 1,
                 IF consecutive >= 5 /\ ranks[i - 1] > straight_high
                 THEN ranks[i - 1] ELSE straight_high)

\* check_straight_from_cards
check_straight_from_cards(cards) ==
    LET ranks == SortBy(SelectSeq(Ranks, LAMBDA r : r \in Range(RanksOf(cards))), LAMBDA a, b : a < b)
        straight_high == StraightScan(ranks, 2, 1, 0)
    IN  IF ranks = <<>> THEN {}
        ELSE IF HasWheel(ranks) THEN {straight_with_wheel}
        ELSE IF straight_high > 0 THEN {straight(straight_high)}
        ELSE {}

\* check_straight_flush
check_straight_flush(cards) ==
    UNION { IF HasWheel(RanksOf(flush_cards)) THEN {straight_flush(5)}
            ELSE {straight_flush(eval.primary_rank) : eval \in check_straight_from_cards(flush_cards)}
            : flush_cards \in get_flush_cards(cards) }

\* check_four_of_a_kind
check_four_of_a_kind(cards) ==
    {four_of_a_kind(cards, r) : r \in RanksCounted(cards, LAMBDA n : n = 4)}

\* check_full_house: three_of_kind is the first rank of the map's iteration with
\* count >= 3, pair_rank the first other rank of the iteration with count >= 2;
\* every such couple is first under some iteration order
check_full_house(cards) ==
    LET threes == RanksCounted(cards, LAMBDA n : n >= 3)
        twos == RanksCounted(cards, LAMBDA n : n >= 2)
    IN  {full_house(t, p) : <<t, p>> \in {tp \in threes \X twos : tp[1] # tp[2]}}

\* check_flush
check_flush(cards) == {flush(flush_cards) : flush_cards \in get_flush_cards(cards)}

\* check_straight
check_straight(cards) == check_straight_from_cards(cards)

\* check_three_of_a_kind
check_three_of_a_kind(cards) ==
    {three_of_a_kind(cards, r) : r \in RanksCounted(cards, LAMBDA n : n >= 3)}

\* check_two_pair
check_two_pair(cards) ==
    LET pairs == SortedDesc(SelectSeq(Ranks, LAMBDA r : RankCount(cards, r) >= 2))
    IN  IF Len(pairs) >= 2 THEN {two_pair(cards, pairs[1], pairs[2])} ELSE {}

\* check_pair
check_pair(cards) == {pair(cards, r) : r \in RanksCounted(cards, LAMBDA n : n >= 2)}

\* the first of the checks, in the order evaluate_hand tries them, that returns Some
FirstSome(checks) ==
    LET some == SelectSeq(checks, LAMBDA c : c # {})
    IN  IF some = <<>> THEN {} ELSE some[1]

\* evaluate_hand on all_cards = hole cards followed by community cards
evaluate_cards(all_cards) ==
    IF all_cards = <<>> THEN {HandEvaluation("HighCard", 0, <<>>)}
    ELSE IF Len(all_cards) < 5
    THEN {HandEvaluation("HighCard", SortedDesc(RanksOf(all_cards))[1], RanksOf(all_cards))}
    ELSE FirstSome(<<check_straight_flush(all_cards), check_four_of_a_kind(all_cards),
                     check_full_house(all_cards), check_flush(all_cards),
                     check_straight(all_cards), check_three_of_a_kind(all_cards),
                     check_two_pair(all_cards), check_pair(all_cards),
                     {high_card(all_cards)}>>)

-----------------------------------------------------------------------------
(* PlayerState and PokerGame *)

\* PlayerState::new
NewPlayerState(chips) ==
    [chips |-> chips, current_bet |-> 0, hole_cards |-> <<>>, has_acted |-> FALSE,
     is_all_in |-> FALSE, is_folded |-> FALSE, is_sitting_out |-> FALSE]

\* PokerGame::new.  `order` is the iteration order of the `players` HashMap;
\* `tx` holds the messages the current call has sent on the broadcast channel;
\* `settled` records what the last showdown paid out of which pot, `ended`
\* whether the current call has called end_hand.
NewGame ==
    [players |-> [id \in {} |-> NewPlayerState(0)],
     order |-> <<>>,
     community_cards |-> <<>>,
     deck |-> <<>>,
     pot |-> 0,
     side_pots |-> <<>>,
     current_street |-> "Preflop",
     dealer_position |-> 0,
     current_player_id |-> NoPlayer,
     min_raise |-> SatMul(BIG_BLIND, 2),
     game_stage |-> "WaitingForPlayers",
     hand_number |-> 0,
     max_bet_per_hand |-> MAX_BET_PER_HAND,
     tx |-> <<>>,
     ended |-> FALSE,
     settled |-> [hand |-> 0, pot |-> 0, paid |-> 0, pots |-> <<>>, evals |-> <<>>, winners |-> <<>>]]

\* broadcast_message
broadcast_message(g, message) == [g EXCEPT !.tx = Append(@, message)]

\* self.players.values() as a sequence of ids
Values(g) == g.order

\* get_active_player_ids
get_active_player_ids(g) ==
    SelectSeq(Values(g), LAMBDA id :
        ~g.players[id].is_folded /\ ~g.players[id].is_sitting_out /\ g.players[id].chips > 0)

\* get_current_bet
get_current_bet(g) ==
    LET bets == {g.players[id].current_bet : id \in {i \in DOMAIN g.players : ~g.players[i].is_folded}}
    IN  IF bets = {} THEN 0 ELSE CHOOSE b \in bets : \A c \in bets : c <= b

\* The PlayerUpdate of one player as broadcast_game_state builds it
PlayerUpdateOf(g, id) ==
    [player_id |-> id,
     chips |-> g.players[id].chips,
     current_bet |-> g.players[id].current_bet,
     has_acted |-> g.players[id].has_acted,
     is_all_in |-> g.players[id].is_all_in,
     is_folded |-> g.players[id].is_folded,
     is_sitting_out |-> g.players[id].is_sitting_out,
     hole_cards |-> IF g.players[id].hole_cards = <<>> THEN <<"[hidden]">>
                    ELSE CardsToStrings(g.players[id].hole_cards)]

\* broadcast_game_state
broadcast_game_state(g) ==
    LET update == [type |-> "GameStateUpdate",
                   hand_number |-> g.hand_number,
                   pot |-> g.pot,
                   side_pots |-> g.side_pots,
                   community_cards |-> CardsToStrings(g.community_cards),
                   current_street |-> g.current_street,
                   dealer_position |-> g.dealer_position]
        players == [type |-> "PlayerUpdates",
                    players |-> [i \in 1..Len(Values(g)) |-> PlayerUpdateOf(g, Values(g)[i])]]
    IN  broadcast_message(broadcast_message(g, update), players)

\* request_action
request_action(g) ==
    LET active == get_active_player_ids(g)
        player_id == IF g.current_player_id # NoPlayer THEN g.current_player_id ELSE active[1]
        known == player_id \in DOMAIN g.players
    IN  IF active = <<>> THEN g
        ELSE broadcast_message(g,
                [type |-> "ActionRequired",
                 player_id |-> IF known THEN player_id ELSE "",
                 min_raise |-> g.min_raise,
                 current_bet |-> get_current_bet(g),
                 player_chips |-> IF known THEN g.players[player_id].chips ELSE 0])

\* create_deck: the 52 cards, shuffled
create_deck(g) == {[g EXCEPT !.deck = d] : d \in Shuffles}

\* deal_card applied to player `id`: pop the last card of the deck, if any
DealTo(g, id) ==
    IF g.deck = <<>> THEN g
    ELSE [g EXCEPT !.players[id].hole_cards = Append(@, g.deck[Len(g.deck)]),
                   !.deck = SubSeq(@, 1, Len(@) - 1)]

RECURSIVE DealRound(_, _)
\* one pass of the inner loop of deal_hole_cards over players.values_mut(), from index i
DealRound(g, i) ==
    IF i > Len(Values(g)) THEN g
    ELSE LET id == Values(g)[i]
         IN  IF ~g.players[id].is_sitting_out /\ g.players[id].chips > 0
             THEN DealRound(DealTo(g, id), i + 1)
             ELSE DealRound(g, i + 1)

\* deal_hole_cards
deal_hole_cards(g) == DealRound(DealRound(g, 1), 1)

\* post_blinds
post_blinds(g) ==
    LET active == get_active_player_ids(g)
        n == Len(active)
        sb_idx == g.dealer_position % n
        bb_idx == (sb_idx + 1) % n
        sb == active[sb_idx + 1]
        bb == active[bb_idx + 1]
        sb_amount == Min(SMALL_BLIND, g.players[sb].chips)
        g1 == [g EXCEPT !.players[sb].chips = @ - sb_amount,
                        !.players[sb].current_bet = sb_amount]
        bb_amount == Min(BIG_BLIND, g1.players[bb].chips)
        g2 == [g1 EXCEPT !.players[bb].chips = @ - bb_amount,
                         !.players[bb].current_bet = bb_amount]
    IN  IF n < 2 THEN g
        ELSE [g2 EXCEPT !.pot = sb_amount + bb_amount,
                        !.min_raise = SatMul(BIG_BLIND, 2)]

\* start_hand, after create_deck
StartHandWithDeck(g0) ==
    LET g1 == [g0 EXCEPT !.players = [id \in DOMAIN @ |->
                              [@[id] EXCEPT !.current_bet = 0, !.hole_cards = <<>>,
                                            !.has_acted = FALSE, !.is_all_in = FALSE,
                                            !.is_folded = FALSE]],
                         !.community_cards = <<>>,
                         !.side_pots = <<>>,
                         !.pot = 0]
        g2 == deal_hole_cards(post_blinds(g1))
        g3 == [g2 EXCEPT !.current_street = "Preflop",
                         !.game_stage = "BettingRound(Preflop)"]
        active == get_active_player_ids(g3)
        g4 == [g3 EXCEPT !.current_player_id =
                            IF Len(active) >= 2 THEN active[2]
                            ELSE IF Len(active) >= 1 THEN active[1]
                            ELSE NoPlayer]
    IN  request_action(broadcast_game_state(g4))

\* start_hand
start_hand(g) ==
    {StartHandWithDeck(gd) : gd \in create_deck([g EXCEPT !.hand_number = @ + 1])}

\* sit_out
sit_out(g, player_id) ==
    IF player_id \in DOMAIN g.players THEN [g EXCEPT !.players[player_id].is_sitting_out = TRUE] ELSE g

\* return_to_game
return_to_game(g, player_id) ==
    IF player_id \in DOMAIN g.players THEN [g EXCEPT !.players[player_id].is_sitting_out = FALSE] ELSE g

\* add_player; the new key takes any place in the HashMap's iteration order
add_player(g, player_id, chips) ==
    LET fresh == player_id \notin DOMAIN g.players
        orders == IF fresh
                  THEN {InsertAt(g.order, i, player_id) : i \in 1..(Len(g.order) + 1)}
                  ELSE {g.order}
        with(o) == [g EXCEPT !.players = [id \in DOMAIN @ \cup {player_id} |->
                                            IF id = player_id THEN NewPlayerState(chips) ELSE @[id]],
                             !.order = o]
        joined(o) == broadcast_message(with(o),
                        [type |-> "PlayerConnected", player_id |-> player_id, chips |-> chips])
    IN  UNION { IF Cardinality(DOMAIN joined(o).players) = 2
                THEN start_hand(joined(o))
                ELSE {joined(o)} : o \in orders }

\* calculate_new_pot without the comparison against MAX_POT
calculate_new_pot_unchecked(g, amount) ==
    IF amount <= 0 THEN -1
    ELSE IF amount > I32_MAX - g.pot THEN -1
    ELSE g.pot + amount

\* calculate_new_pot: -1 stands for None
calculate_new_pot(g, amount) ==
    IF amount <= 0 THEN -1
    ELSE IF amount > I32_MAX - g.pot THEN -1
    ELSE IF g.pot + amount > MAX_POT THEN -1
    ELSE g.pot + amount

\* the players that have not folded, in the order of players.values()
NotFolded(g) == SelectSeq(Values(g), LAMBDA id : ~g.players[id].is_folded)

\* calculate_side_pots with every layer measured from min_bet
calculate_side_pots_from_min(g) ==
    LET players_vec == SortBy(NotFolded(g), LAMBDA a, b :
                           g.players[a].current_bet < g.players[b].current_bet)
        bet(i) == g.players[players_vec[i]].current_bet
        min_bet == bet(1)
        main_pot == [amount |-> SatMul(min_bet, Len(players_vec)), eligible |-> players_vec]
        current_level(i) == IF i = 1 THEN min_bet ELSE bet(i - 1)
        eligible_players(i) == SelectSeq(players_vec, LAMBDA id : g.players[id].current_bet >= bet(i))
        side_pot(i) == [amount |-> SatMul(bet(i) - min_bet, Len(eligible_players(i))),
                        eligible |-> eligible_players(i)]
        raised == SelectSeq([i \in 1..Len(players_vec) |-> i], LAMBDA i : bet(i) - current_level(i) > 0)
    IN  IF players_vec = <<>> THEN <<>>
        ELSE <<main_pot>> \o [k \in 1..Len(raised) |-> side_pot(raised[k])]

\* calculate_side_pots
calculate_side_pots(g) ==
    LET players_vec == SortBy(NotFolded(g), LAMBDA a, b :
                           g.players[a].current_bet < g.players[b].current_bet)
        bet(i) == g.players[players_vec[i]].current_bet
        min_bet == bet(1)
        main_pot == [amount |-> SatMul(min_bet, Len(players_vec)), eligible |-> players_vec]
        \* current_level when the loop reaches player i
        current_level(i) == IF i = 1 THEN min_bet ELSE bet(i - 1)
        eligible_players(i) == SelectSeq(players_vec, LAMBDA id : g.players[id].current_bet >= bet(i))
        side_pot(i) == [amount |-> SatMul(bet(i) - current_level(i), Len(eligible_players(i))),
                        eligible |-> eligible_players(i)]
        raised == SelectSeq([i \in 1..Len(players_vec) |-> i], LAMBDA i : bet(i) - current_level(i) > 0)
    IN  IF players_vec = <<>> THEN <<>>
        ELSE <<main_pot>> \o [k \in 1..Len(raised) |-> side_pot(raised[k])]

\* evaluate_hand
evaluate_hand(g, id) == evaluate_cards(g.players[id].hole_cards \o g.community_cards)

\* the winnings_distribution for one pot with the remainder left out
PotWinnings_floor(pot, winners) ==
    LET pot_winner_ids == SelectSeq(winners, LAMBDA w : w \in Range(pot.eligible))
        winner_count_in_pot == Len(pot_winner_ids)
        pot_per_winner == pot.amount \div winner_count_in_pot
    IN  IF pot_winner_ids = <<>> THEN <<>>
        ELSE [i \in 1..winner_count_in_pot |->
                [winner_id |-> pot_winner_ids[i], winnings |-> pot_per_winner]]

\* the winnings_distribution of showdown for one pot: (winner, winnings) in order
PotWinnings(pot, winners) ==
    LET pot_winner_ids == SelectSeq(winners, LAMBDA w : w \in Range(pot.eligible))
        winner_count_in_pot == Len(pot_winner_ids)
        pot_per_winner == pot.amount \div winner_count_in_pot
        remainder == pot.amount % winner_count_in_pot
    IN  IF pot_winner_ids = <<>> THEN <<>>
        ELSE [i \in 1..winner_count_in_pot |->
                [winner_id |-> pot_winner_ids[i],
                 winnings |-> pot_per_winner + (IF i - 1 < remainder THEN 1 ELSE 0)]]

RECURSIVE Flatten(_)
Flatten(ss) == IF ss = <<>> THEN <<>> ELSE ss[1] \o Flatten(Tail(ss))

\* showdown up to the call of end_hand, with the evaluation `evals[id]` that
\* evaluate_hand returned for each player that has not folded
Settle(g, evals) ==
    LET side_pots == calculate_side_pots(g)
        hand_evals == SortBy(NotFolded(g), LAMBDA a, b : EvalLess(evals[b], evals[a]))
        best_eval == evals[hand_evals[1]]
        winners == SelectSeq(hand_evals, LAMBDA id :
                       evals[id].rank = best_eval.rank /\ evals[id].tiebreakers = best_eval.tiebreakers)
        showdown_update ==
            [type |-> "Showdown",
             community_cards |-> CardsToStrings(g.community_cards),
             hands |-> [i \in 1..Len(hand_evals) |->
                          <<hand_evals[i], CardsToStrings(g.players[hand_evals[i]].hole_cards),
                            evals[hand_evals[i]].rank>>],
             winners |-> winners]
        winnings_distribution ==
            Flatten([k \in 1..Len(side_pots) |-> PotWinnings(side_pots[k], winners)])
        credit(id) == SumSeq([i \in 1..Len(winnings_distribution) |->
                         IF winnings_distribution[i].winner_id = id
                         THEN winnings_distribution[i].winnings ELSE 0])
        paid == [g EXCEPT !.players = [id \in DOMAIN @ |-> [@[id] EXCEPT !.chips = @ + credit(id)]],
                          !.settled = [hand |-> g.hand_number,
                                       pot |-> g.pot,
                                       paid |-> SumSeq([i \in 1..Len(winnings_distribution) |->
                                                   winnings_distribution[i].winnings]),
                                       pots |-> [k \in 1..Len(side_pots) |->
                                                   [amount |-> side_pots[k].amount,
                                                    eligible |-> Range(side_pots[k].eligible),
                                                    paid_to |-> {w.winner_id : w \in
                                                        Range(PotWinnings(side_pots[k], winners))}]],
                                       evals |-> evals,
                                       winners |-> winners]]
    IN  broadcast_message(paid, showdown_update)

\* end_hand that leaves the stage alone when no hand can start
end_hand_staying(g) ==
    LET g1 == broadcast_game_state([g EXCEPT !.game_stage = "HandComplete", !.ended = TRUE])
        active_player_ids == SelectSeq(Values(g1), LAMBDA id :
                                 g1.players[id].chips > 0 /\ ~g1.players[id].is_sitting_out)
        n == Len(active_player_ids)
        current_dealer == active_player_ids[(g1.dealer_position % n) + 1]
        current_idx == Position(active_player_ids, current_dealer) - 1
        g2 == IF n = 0 THEN g1
              ELSE [g1 EXCEPT !.dealer_position = (current_idx + 1) % n]
    IN  IF n >= 2 THEN start_hand(g2)
        ELSE {g2}

\* end_hand
end_hand(g) ==
    LET g1 == broadcast_game_state([g EXCEPT !.game_stage = "HandComplete", !.ended = TRUE])
        active_player_ids == SelectSeq(Values(g1), LAMBDA id :
                                 g1.players[id].chips > 0 /\ ~g1.players[id].is_sitting_out)
        n == Len(active_player_ids)
        current_dealer == active_player_ids[(g1.dealer_position % n) + 1]
        current_idx == Position(active_player_ids, current_dealer) - 1
        g2 == IF n = 0 THEN g1
              ELSE [g1 EXCEPT !.dealer_position = (current_idx + 1) % n]
    IN  IF n >= 2 THEN start_hand(g2)
        ELSE {[g2 EXCEPT !.game_stage = "WaitingForPlayers"]}

\* showdown
showdown(g) ==
    LET active_players == NotFolded(g)
        choices == {evals \in [Range(active_players) -> UNION {evaluate_hand(g, id) : id \in Range(active_players)}] :
                       \A id \in Range(active_players) : evals[id] \in evaluate_hand(g, id)}
    IN  IF active_players = <<>> THEN end_hand(g)
        ELSE UNION {end_hand(Settle(g, evals)) : evals \in choices}

\* all_players_acted
all_players_acted(g) ==
    \A id \in DOMAIN g.players :
        (~g.players[id].is_folded /\ ~g.players[id].is_all_in) => g.players[id].has_acted

\* bets_equalized
bets_equalized(g) ==
    \A id \in DOMAIN g.players :
        ~g.players[id].is_folded =>
            (g.players[id].current_bet = get_current_bet(g) \/ g.players[id].is_all_in)

\* should_advance_street
should_advance_street(g) == all_players_acted(g) /\ bets_equalized(g)

\* deal_community_cards
deal_community_cards(g, count) ==
    LET max_cards == CASE g.current_street = "Preflop" -> 5
                       [] g.current_street = "Flop" -> 4
                       [] g.current_street = "Turn" -> 5
                       [] g.current_street = "River" -> 5
                       [] g.current_street = "Showdown" -> 0
        dealt == Min(count, Len(g.deck))
    IN  IF g.current_street = "Showdown" \/ count = 0 \/ count > 5
           \/ Len(g.community_cards) + count > max_cards
        THEN g
        ELSE [g EXCEPT !.community_cards = @ \o Reverse(SubSeq(g.deck, Len(g.deck) - dealt + 1, Len(g.deck))),
                       !.deck = SubSeq(@, 1, Len(@) - dealt)]

\* advance_action
advance_action(g) ==
    LET active_player_ids == get_active_player_ids(g)
        n == Len(active_player_ids)
        current_idx == Position(active_player_ids, g.current_player_id) - 1
        g1 == [g EXCEPT !.current_player_id =
                  IF g.current_player_id # NoPlayer /\ current_idx >= 0
                  THEN active_player_ids[((current_idx + 1) % n) + 1]
                  ELSE active_player_ids[1]]
        next_street(to, count) ==
            {request_action(broadcast_game_state(
                deal_community_cards([g1 EXCEPT !.current_street = to], count)))}
    IN  IF n = 0 THEN end_hand(g)
        ELSE IF g1.current_street # "Showdown" /\ should_advance_street(g1)
        THEN CASE g1.current_street = "Preflop" -> next_street("Flop", 3)
               [] g1.current_street = "Flop" -> next_street("Turn", 1)
               [] g1.current_street = "Turn" -> next_street("River", 1)
               [] g1.current_street = "River" -> showdown([g1 EXCEPT !.current_street = "Showdown"])
        ELSE {request_action(g1)}

\* validate_bet_amount: "Ok" or the ServerError it returns
validate_bet_amount(g, player, amount, current_bet, pot) ==
    LET max_bet == SatMul(pot, MAX_BET_MULTIPLIER)
    IN  IF amount <= 0 THEN "InvalidAmount"
        ELSE IF current_bet > 0 /\ amount < current_bet THEN "CannotBet"
        ELSE IF amount > player.chips THEN "BetExceedsChips"
        ELSE IF amount > max_bet /\ player.chips > max_bet THEN "InvalidBet"
        ELSE IF amount > g.max_bet_per_hand THEN "InvalidBet"
        ELSE IF amount < g.min_raise /\ player.chips > g.min_raise THEN "MinBet"
        ELSE "Ok"

\* validate_raise_amount: "Ok" or the ServerError it returns
validate_raise_amount(g, player, total_bet) ==
    IF total_bet <= player.current_bet THEN "InvalidRaise"
    ELSE IF total_bet < g.min_raise THEN "MinRaise"
    ELSE IF SatSub(total_bet, player.current_bet) > player.chips THEN "RaiseInsufficientChips"
    ELSE IF total_bet > g.max_bet_per_hand THEN "InvalidBet"
    ELSE "Ok"

\* PlayerAction
Action(kind, amount) == [kind |-> kind, amount |-> amount]

\* The match on `action` in handle_action, for the player whose turn it is:
\* [res |-> "Ok", game |-> the game with the action applied] or
\* [res |-> the ServerError returned, game |-> g]
ApplyAction(g, player_id, action) ==
    LET current_bet == get_current_bet(g)
        known == player_id \in DOMAIN g.players
        player == g.players[player_id]
        Err(e) == [res |-> e, game |-> g]
        Ok(g1) == [res |-> "Ok", game |-> g1]
        \* the player's chips, bet and flags after `amount` chips went in
        Put(amount, bet, new_pot, min_raise) ==
            [g EXCEPT !.players[player_id].chips = SatSub(@, amount),
                      !.players[player_id].current_bet = bet,
                      !.players[player_id].has_acted = TRUE,
                      !.players[player_id].is_all_in = (@ \/ player.chips - amount = 0),
                      !.pot = new_pot,
                      !.min_raise = min_raise]
    IN  CASE action.kind = "Fold" ->
               IF known THEN Ok([g EXCEPT !.players[player_id].is_folded = TRUE,
                                          !.players[player_id].has_acted = TRUE])
               ELSE Ok(g)
          [] action.kind = "Check" ->
               IF current_bet - (IF known THEN player.current_bet ELSE 0) > 0 THEN Err("CannotCheck")
               ELSE IF known THEN Ok([g EXCEPT !.players[player_id].has_acted = TRUE])
               ELSE Ok(g)
          [] action.kind = "Call" ->
               IF ~known THEN Err("PlayerNotFound")
               ELSE LET call_amount == Min(SatSub(current_bet, player.current_bet), player.chips)
                        new_pot == IF call_amount > 0 THEN calculate_new_pot(g, call_amount) ELSE g.pot
                    IN  IF new_pot < 0 THEN Err("InvalidBet")
                        ELSE Ok(Put(call_amount, SatAdd(player.current_bet, call_amount),
                                    new_pot, g.min_raise))
          [] action.kind = "Bet" ->
               IF ~known THEN Err("PlayerNotFound")
               ELSE LET valid == validate_bet_amount(g, player, action.amount, current_bet, g.pot)
                        new_pot == calculate_new_pot(g, action.amount)
                    IN  IF valid # "Ok" THEN Err(valid)
                        ELSE IF current_bet > 0 /\ action.amount < g.min_raise THEN Err("MinRaise")
                        ELSE IF new_pot < 0 THEN Err("InvalidBet")
                        ELSE Ok(Put(action.amount, action.amount, new_pot, SatMul(action.amount, 2)))
          [] action.kind = "Raise" ->
               IF ~known THEN Err("PlayerNotFound")
               ELSE LET total_bet == SatAdd(current_bet, action.amount)
                        valid == validate_raise_amount(g, player, total_bet)
                        actual_raise == SatSub(total_bet, player.current_bet)
                        new_pot == calculate_new_pot(g, actual_raise)
                    IN  IF valid # "Ok" THEN Err(valid)
                        ELSE IF new_pot < 0 THEN Err("InvalidBet")
                        ELSE Ok(Put(actual_raise, SatAdd(player.current_bet, actual_raise), new_pot,
                                    SatMul(SatAdd(player.current_bet, actual_raise), 2)))
          [] action.kind = "AllIn" ->
               IF ~known THEN Err("PlayerNotFound")
               ELSE LET all_in_amount == player.chips
                        new_bet == SatAdd(player.current_bet, all_in_amount)
                        new_pot == calculate_new_pot(g, all_in_amount)
                    IN  IF current_bet > 0 /\ new_bet < SatAdd(current_bet, g.min_raise) THEN Err("MinRaise")
                        ELSE IF new_pot < 0 THEN Err("InvalidBet")
                        ELSE Ok(Put(all_in_amount, new_bet, new_pot,
                                    IF new_bet > current_bet /\ SatMul(new_bet, 2) > g.min_raise
                                    THEN SatMul(new_bet, 2) ELSE g.min_raise))

\* handle_action marking the player as having acted before it validates
handle_action_marking(g, player_id, action) ==
    LET marked == IF player_id \in DOMAIN g.players
                  THEN [g EXCEPT !.players[player_id].has_acted = TRUE] ELSE g
        active_player_ids == get_active_player_ids(g)
        is_player_turn ==
            IF g.current_player_id # NoPlayer THEN g.current_player_id = player_id
            ELSE active_player_ids # <<>> /\ active_player_ids[1] = player_id
        applied == ApplyAction(marked, player_id, action)
    IN  IF ~is_player_turn THEN {[res |-> "NotYourTurn", game |-> g]}
        ELSE IF applied.res # "Ok" THEN {applied}
        ELSE {[res |-> "Ok", game |-> g2] :
                 g2 \in advance_action(broadcast_game_state(applied.game))}

\* handle_action: the set of [res, game] it can return and leave behind
handle_action(g, player_id, action) ==
    LET active_player_ids == get_active_player_ids(g)
        is_player_turn ==
            IF g.current_player_id # NoPlayer THEN g.current_player_id = player_id
            ELSE active_player_ids # <<>> /\ active_player_ids[1] = player_id
        applied == ApplyAction(g, player_id, action)
    IN  IF ~is_player_turn THEN {[res |-> "NotYourTurn", game |-> g]}
        ELSE IF applied.res # "Ok" THEN {applied}
        ELSE {[res |-> "Ok", game |-> g2] :
                 g2 \in advance_action(broadcast_game_state(applied.game))}

-----------------------------------------------------------------------------
(* The session registry, the connection handlers and the broadcast router *)

\* The connections, numbered in the order the accept loop takes them; the
\* player of connection c is c.  All of them come from one address.
Conns == 1..MaxConns
Ips == {"192.0.2.1"}
IpOf(c) == "192.0.2.1"

\* main: the clock, the empty NonceCache, the ShutdownState and the listener
\* The tasks that share the limiter
Callers == 1..MaxCallers

\* TokenBucketRateLimiter::new(MaxTokens, RefillPerSecond) at instant 0
NewLimiter ==
    [tokens |-> MaxTokens, last_update_ms |-> 0,
     max_tokens |-> MaxTokens, refill_rate |-> RefillPerSecond]

\* A task that is not in allow()
Idle == [pc |-> "idle", now_ms |-> 0, tokens |-> 0, last_update_ms |-> 0]

InitLimiter ==
    /\ bucket = NewLimiter
    /\ threads = [c \in Callers |-> Idle]
    /\ wall = 0
    /\ admitted = 0

\* before the accept loop is entered
InitMain ==
    /\ now = StartClock
    /\ nonce_cache = << >>
    /\ accepted_at = << >>
    /\ verified = "none"
    /\ shutdown = FALSE
    /\ supervisor = [pc |-> "loop", active_connections |-> 0, cleanup_counter |-> 0]
    /\ backlog = 0
    /\ inactivity = "sleep"

\* No pure function has been called
NoCall == args = << >> /\ returned = << >>

\* PokerServer::new
InitServer ==
    /\ pc = [c \in Conns |-> "idle"]
    /\ InitLimiter
    /\ server_lock = 0
    /\ connection_count = 0
    /\ ip_connections = [ip \in Ips |-> 0]
    /\ connected = {}
    /\ player_sessions = {}
    /\ channel = <<>>
    /\ emitted = 0
    /\ tasks = {}
    /\ queues = [c \in Conns |-> <<>>]
    /\ server_players = << >>
    /\ tokens = [c \in Conns |-> MaxTokens]
    /\ burst = [c \in Conns |-> 0]
    /\ InitMain

\* can_accept_connection
can_accept_connection(ip) ==
    connection_count < MAX_CONNECTIONS /\ ip_connections[ip] < MAX_CONNECTIONS_PER_IP

\* A frame of the given kind; events carry the number they were sent with
Frame(kind, n) == [kind |-> kind, n |-> n]

\* send_to_player: the tasks after the call; it spawns a task that sends `frame`
send_to_player(pending, player_id, frame) ==
    IF player_id \in connected THEN pending \cup {[to |-> player_id, frame |-> frame]}
    ELSE pending

\* tx.send of an event by the engine (broadcast_message)
send_event(ch, n) == Append(ch, Frame("Event", n))

\* the accept loop spawns the task of the next connection
Accept(c) ==
    /\ pc[c] = "idle"
    /\ IF c = 1 THEN TRUE ELSE pc[c - 1] # "idle"
    /\ pc' = [pc EXCEPT ![c] = "check"]
    /\ UNCHANGED <<engine_vars, registry_vars, server_lock, connection_count, ip_connections, connected,
                   player_sessions, channel, emitted, tasks, queues>>
    /\ UNCHANGED other_vars

\* handle_connection: the lock section that calls can_accept_connection
CanAccept(c) ==
    /\ pc[c] = "check"
    /\ server_lock = 0
    /\ pc' = [pc EXCEPT ![c] = IF can_accept_connection(IpOf(c)) THEN "register" ELSE "done"]
    /\ UNCHANGED <<engine_vars, registry_vars, server_lock, connection_count, ip_connections, connected,
                   player_sessions, channel, emitted, tasks, queues>>
    /\ UNCHANGED other_vars

\* handle_connection: the lock section that calls register_connection
Register(c) ==
    /\ pc[c] = "register"
    /\ server_lock = 0
    /\ connection_count' = connection_count + 1
    /\ ip_connections' = [ip_connections EXCEPT ![IpOf(c)] = @ + 1]
    /\ pc' = [pc EXCEPT ![c] = "handshake"]
    /\ UNCHANGED <<engine_vars, registry_vars, server_lock, connected, player_sessions, channel, emitted, tasks, queues>>
    /\ UNCHANGED other_vars

\* handle_connection: accept_async(stream).await? succeeds, or fails and returns
Handshake(c) ==
    /\ pc[c] = "handshake"
    /\ \/ pc' = [pc EXCEPT ![c] = "connect"]
       \/ pc' = [pc EXCEPT ![c] = "done"]
    /\ UNCHANGED <<engine_vars, registry_vars, server_lock, connection_count, ip_connections, connected,
                   player_sessions, channel, emitted, tasks, queues>>
    /\ UNCHANGED other_vars

\* handle_connection: the lock section with register_player and connect_player
ConnectPlayer(c) ==
    /\ pc[c] = "connect"
    /\ server_lock = 0
    /\ connected' = connected \cup {c}
    /\ pc' = [pc EXCEPT ![c] = "read"]
    /\ UNCHANGED <<engine_vars, registry_vars, server_lock, connection_count, ip_connections,
                   player_sessions, channel, emitted, tasks, queues>>
    /\ UNCHANGED other_vars

\* read loop: a close frame, a socket error, inactivity or a rate-limit abort
Close(c) ==
    /\ pc[c] = "read"
    /\ pc' = [pc EXCEPT ![c] = "cleanup"]
    /\ UNCHANGED <<engine_vars, registry_vars, server_lock, connection_count, ip_connections, connected,
                   player_sessions, channel, emitted, tasks, queues>>
    /\ UNCHANGED other_vars

\* handle_connection: disconnect_player and unregister_connection after the read loop
Cleanup(c) ==
    /\ pc[c] = "cleanup"
    /\ server_lock = 0
    /\ connected' = connected \ {c}
    /\ player_sessions' = player_sessions \ {c}
    /\ connection_count' = IF connection_count = 0 THEN 0 ELSE connection_count - 1
    /\ ip_connections' = [ip_connections EXCEPT ![IpOf(c)] = IF @ = 0 THEN 0 ELSE @ - 1]
    /\ queues' = [queues EXCEPT ![c] = <<>>]
    /\ pc' = [pc EXCEPT ![c] = "done"]
    /\ UNCHANGED <<engine_vars, registry_vars, server_lock, channel, emitted, tasks>>
    /\ UNCHANGED other_vars

\* handle_connect -> handle_message(Connect) -> seat_player, which returns Ok
ReceiveConnect(c) ==
    /\ pc[c] = "read"
    /\ server_lock = 0
    /\ c \notin player_sessions
    /\ emitted < MaxEvents
    /\ player_sessions' = player_sessions \cup {c}
    /\ channel' = send_event(channel, emitted + 1)
    /\ emitted' = emitted + 1
    /\ tasks' = send_to_player(send_to_player(tasks, c, Frame("Connected", 0)), c, Frame("GameState", 0))
    /\ UNCHANGED <<engine_vars, registry_vars, pc, server_lock, connection_count, ip_connections, connected, queues>>
    /\ UNCHANGED other_vars

\* send_action: it takes the lock and calls handle_message(Action); on Ok it
\* returns, on Err it calls send_error with the lock still held
ReceiveAction(c) ==
    /\ pc[c] = "read"
    /\ server_lock = 0
    /\ \/ /\ c \in player_sessions
          /\ emitted < MaxEvents
          /\ channel' = send_event(channel, emitted + 1)
          /\ emitted' = emitted + 1
          /\ UNCHANGED <<engine_vars, registry_vars, pc, server_lock>>
       \/ /\ pc' = [pc EXCEPT ![c] = "send_error"]
          /\ server_lock' = c
          /\ UNCHANGED <<engine_vars, registry_vars, channel, emitted>>
    /\ UNCHANGED <<engine_vars, registry_vars, connection_count, ip_connections, connected, player_sessions, tasks, queues>>
    /\ UNCHANGED other_vars

\* handle_raise with an amount validate_action_amount rejects: send_error is
\* called with the lock free
ReceiveBadRaise(c) ==
    /\ pc[c] = "read"
    /\ ~\E t \in tasks : t.to = c /\ t.frame.kind = "Error"
    /\ Len(SelectSeq(queues[c], LAMBDA f : f.kind = "Error")) < MaxErrors
    /\ pc' = [pc EXCEPT ![c] = "send_error"]
    /\ UNCHANGED <<engine_vars, registry_vars, server_lock, connection_count, ip_connections, connected,
                   player_sessions, channel, emitted, tasks, queues>>
    /\ UNCHANGED other_vars

\* send_error: it takes the lock and calls send_to_player; its caller then
\* returns, which drops the caller's guard
SendError(c) ==
    /\ pc[c] = "send_error"
    /\ server_lock = 0
    /\ tasks' = send_to_player(tasks, c, Frame("Error", 0))
    /\ pc' = [pc EXCEPT ![c] = "read"]
    /\ UNCHANGED <<engine_vars, registry_vars, server_lock, connection_count, ip_connections, connected,
                   player_sessions, channel, emitted, queues>>
    /\ UNCHANGED other_vars

\* broadcast_task: rx.recv, then broadcast_to_game under the lock spawns one
\* task for each connected player of the table
Route ==
    /\ channel # <<>>
    /\ server_lock = 0
    /\ tasks' = tasks \cup {[to |-> c, frame |-> Head(channel)] : c \in player_sessions \cap connected}
    /\ channel' = Tail(channel)
    /\ UNCHANGED <<engine_vars, registry_vars, pc, server_lock, connection_count, ip_connections, connected,
                   player_sessions, emitted, queues>>
    /\ UNCHANGED other_vars

\* The frames a task may carry
Frames ==
    {Frame(kind, 0) : kind \in {"Connected", "GameState", "Error"}}
    \cup {Frame("Event", n) : n \in 1..MaxEvents}

\* a spawned task runs sender.send: the frame enters the connection's queue,
\* which nobody reads any more once the connection has been cleaned up
Deliver(t) ==
    /\ t \in tasks
    /\ tasks' = tasks \ {t}
    /\ queues' = IF pc[t.to] = "done" THEN queues
                 ELSE [queues EXCEPT ![t.to] = Append(@, t.frame)]
    /\ UNCHANGED <<engine_vars, registry_vars, pc, server_lock, connection_count, ip_connections, connected,
                   player_sessions, channel, emitted>>
    /\ UNCHANGED other_vars

\* Connections being admitted, connected and closed
InitAdmit ==
    InitServer /\ game = NewGame /\ result = "none" /\ sit_outs = 0 /\ actions = 0
        /\ street_actors = {} /\ NoCall

NextAdmit ==
    \/ \E c \in Conns : Accept(c)
    \/ \E c \in Conns : CanAccept(c)
    \/ \E c \in Conns : Register(c)
    \/ \E c \in Conns : Handshake(c)
    \/ \E c \in Conns : ConnectPlayer(c)
    \/ \E c \in Conns : Close(c)
    \/ \E c \in Conns : Cleanup(c)

SpecAdmit == InitAdmit /\ [][NextAdmit]_vars

\* The first MaxTalkers connections being served
Talkers == 1..MaxTalkers

NextServe ==
    \/ \E c \in Talkers : Accept(c)
    \/ \E c \in Talkers : CanAccept(c)
    \/ \E c \in Talkers : Register(c)
    \/ \E c \in Talkers : Handshake(c)
    \/ \E c \in Talkers : ConnectPlayer(c)
    \/ \E c \in Talkers : Close(c)
    \/ \E c \in Talkers : Cleanup(c)
    \/ \E c \in Talkers : ReceiveConnect(c)
    \/ \E c \in Talkers : ReceiveAction(c)
    \/ \E c \in Talkers : ReceiveBadRaise(c)
    \/ \E c \in Talkers : SendError(c)
    \/ Route
    \/ \E c \in Talkers, frame \in Frames : Deliver([to |-> c, frame |-> frame])

SpecServe == InitAdmit /\ [][NextServe]_vars

-----------------------------------------------------------------------------
(* The engine as a state machine: the calls the registry makes into it *)

\* A call starts with nothing sent on the broadcast channel yet
Fresh(g) == [g EXCEPT !.tx = <<>>, !.ended = FALSE]

\* The players that have acted on the street of `g1`, the game a call on `g`
\* left behind: nobody when the call dealt a new street or started a hand
StreetActors(g, g1, acted) ==
    IF g1.hand_number # g.hand_number \/ g1.current_street # g.current_street THEN {}
    ELSE acted

Init ==
    /\ game = NewGame
    /\ result = "none"
    /\ sit_outs = 0
    /\ actions = 0
    /\ street_actors = {}
    /\ InitServer
    /\ NoCall

\* seat_player -> add_player, for a player that is not seated yet
AddPlayer(id) ==
    /\ id \notin DOMAIN game.players
    /\ \E chips \in Stacks[id] : game' \in add_player(Fresh(game), id, chips)
    /\ result' = "Ok"
    /\ street_actors' = StreetActors(game, game', street_actors)
    /\ UNCHANGED <<sit_outs, actions, server_vars, registry_vars>>
    /\ UNCHANGED other_vars

\* The actions callers submit
Actions ==
    {Action(k, 0) : k \in {"Fold", "Check", "Call", "AllIn"}}
    \cup {Action("Bet", a) : a \in BetAmounts}
    \cup {Action("Raise", a) : a \in RaiseAmounts}

\* handle_message(Action) -> handle_action
HandleAction(id, action) ==
    /\ game.hand_number <= MaxHands
    /\ actions < MaxActions
    /\ \E out \in handle_action(Fresh(game), id, action) :
          /\ game' = out.game
          /\ result' = out.res
          /\ actions' = IF out.res = "Ok" THEN actions + 1 ELSE actions
          /\ street_actors' = StreetActors(game, out.game,
                  IF out.res = "Ok" THEN street_actors \cup {id} ELSE street_actors)
    /\ UNCHANGED <<sit_outs, server_vars, registry_vars>>
    /\ UNCHANGED other_vars

\* handle_message(SitOut) -> sit_out
SitOut(id) ==
    /\ id \in DOMAIN game.players
    /\ sit_outs < MaxSitOuts
    /\ game' = sit_out(Fresh(game), id)
    /\ result' = "Ok"
    /\ sit_outs' = sit_outs + 1
    /\ street_actors' = StreetActors(game, game', street_actors)
    /\ UNCHANGED <<actions, server_vars, registry_vars>>
    /\ UNCHANGED other_vars

\* handle_message(Return) -> return_to_game
Return(id) ==
    /\ id \in DOMAIN game.players
    /\ game' = return_to_game(Fresh(game), id)
    /\ result' = "Ok"
    /\ street_actors' = StreetActors(game, game', street_actors)
    /\ UNCHANGED <<sit_outs, actions, server_vars, registry_vars>>
    /\ UNCHANGED other_vars

Next ==
    \/ \E id \in Ids : AddPlayer(id)
    \/ \E id \in Ids, action \in Actions : HandleAction(id, action)
    \/ \E id \in Ids : SitOut(id)
    \/ \E id \in Ids : Return(id)

Spec == Init /\ [][Next]_vars

-----------------------------------------------------------------------------
(* The session registry as a state machine: the calls made on PokerServer *)

\* The chips handle_connection registers a player with
STARTING_CHIPS == 1000

\* The chips register_player is called with
RegisterChips == {0, STARTING_CHIPS}

\* The table main() creates, and the table identifiers callers name
Games == {"main_table"}
Tables == {"main_table", "side_table"}

\* The registry is called again once no more than MaxQueue - 1 frames wait
\* in any connection's queue and every spawned task has sent its frame
MaxQueue == 1

\* Nothing the registry has sent is still in flight
Drained == tasks = {} /\ \A c \in Talkers : Len(queues[c]) < MaxQueue

\* The engine's key of the player of connection c
KeyOf(c) == <<"p1", "p2", "p3", "p4">>[c]

\* ServerPlayer::new; the ws_sender is held by `connected`.  `dropped` records
\* that disconnect_player was called on the player while seated and connected.
ServerPlayer(chips) ==
    [chips |-> chips, connected |-> FALSE, seated |-> FALSE, expired |-> FALSE,
     dropped |-> FALSE]

\* register_player
RegisterPlayer(p, chips) ==
    /\ server_lock = 0
    /\ server_players' = IF p \in DOMAIN server_players THEN server_players
                         ELSE server_players @@ (p :> ServerPlayer(chips))
    /\ result' = "Ok"
    /\ UNCHANGED <<game, sit_outs, actions, street_actors, server_vars, tokens, burst>>
    /\ UNCHANGED other_vars

\* connect_player
ConnectSender(p) ==
    /\ server_lock = 0
    /\ p \in DOMAIN server_players
    /\ server_players' = [server_players EXCEPT ![p].connected = TRUE, ![p].dropped = FALSE]
    /\ connected' = connected \cup {p}
    /\ result' = "Ok"
    /\ UNCHANGED <<game, sit_outs, actions, street_actors, pc, server_lock, connection_count,
                   ip_connections, player_sessions, channel, emitted, tasks, queues, tokens, burst>>
    /\ UNCHANGED other_vars

\* session_expiry_hours go by since the player was registered
SessionExpires(p) ==
    /\ p \in DOMAIN server_players
    /\ ~server_players[p].expired
    /\ server_players' = [server_players EXCEPT ![p].expired = TRUE]
    /\ UNCHANGED <<engine_vars, server_vars, tokens, burst>>
    /\ UNCHANGED other_vars

\* seat_player without the check for a player that is seated already
SeatPlayer_reseating(p, game_id) ==
    /\ server_lock = 0
    /\ Drained
    /\ IF p \notin DOMAIN server_players
       THEN /\ result' = "PlayerNotFound"
            /\ UNCHANGED <<game, server_players, player_sessions, tasks>>
       ELSE IF game_id \notin Games
       THEN /\ result' = "GameNotFound"
            /\ UNCHANGED <<game, server_players, player_sessions, tasks>>
       ELSE IF server_players[p].chips <= 0
       THEN /\ result' = "NoChips"
            /\ UNCHANGED <<game, server_players, player_sessions, tasks>>
       ELSE /\ game.hand_number < MaxHands
            /\ server_players' = [server_players EXCEPT ![p].seated = TRUE]
            /\ player_sessions' = player_sessions \cup {p}
            /\ game' \in add_player(Fresh(game), KeyOf(p), server_players[p].chips)
            /\ tasks' = send_to_player(send_to_player(tasks, p, Frame("Connected", 0)),
                                       p, Frame("GameState", 0))
            /\ result' = "Ok"
    /\ UNCHANGED <<sit_outs, actions, street_actors, pc, server_lock, connection_count,
                   ip_connections, connected, channel, emitted, queues, tokens, burst>>
    /\ UNCHANGED other_vars

\* seat_player
SeatPlayer(p, game_id) ==
    /\ server_lock = 0
    /\ Drained
    /\ IF p \notin DOMAIN server_players
       THEN /\ result' = "PlayerNotFound"
            /\ UNCHANGED <<game, server_players, player_sessions, tasks>>
       ELSE IF game_id \notin Games
       THEN /\ result' = "GameNotFound"
            /\ UNCHANGED <<game, server_players, player_sessions, tasks>>
       ELSE IF server_players[p].chips <= 0
       THEN /\ result' = "NoChips"
            /\ UNCHANGED <<game, server_players, player_sessions, tasks>>
       ELSE IF p \in player_sessions
       THEN /\ result' = "Ok"
            /\ UNCHANGED <<game, server_players, player_sessions, tasks>>
       ELSE /\ game.hand_number < MaxHands
            /\ server_players' = [server_players EXCEPT ![p].seated = TRUE]
            /\ player_sessions' = player_sessions \cup {p}
            /\ game' \in add_player(Fresh(game), KeyOf(p), server_players[p].chips)
            /\ tasks' = send_to_player(send_to_player(tasks, p, Frame("Connected", 0)),
                                       p, Frame("GameState", 0))
            /\ result' = "Ok"
    /\ UNCHANGED <<sit_outs, actions, street_actors, pc, server_lock, connection_count,
                   ip_connections, connected, channel, emitted, queues, tokens, burst>>
    /\ UNCHANGED other_vars

\* disconnect_player
DisconnectPlayer(p) ==
    /\ server_lock = 0
    /\ Drained
    /\ IF p \in DOMAIN server_players
       THEN /\ server_players' =
                  [server_players EXCEPT ![p].connected = FALSE,
                                         ![p].dropped = @ \/ (p \in connected /\ p \in player_sessions)]
            /\ connected' = connected \ {p}
            /\ tasks' = IF p \in player_sessions
                        THEN tasks \cup {[to |-> q, frame |-> Frame("PlayerDisconnected", 0)] :
                                            q \in {c \in connected \ {p} :
                                                      KeyOf(c) \in DOMAIN game.players}}
                        ELSE tasks
       ELSE UNCHANGED <<server_players, connected, tasks>>
    /\ player_sessions' = player_sessions \ {p}
    /\ result' = "Ok"
    /\ UNCHANGED <<game, sit_outs, actions, street_actors, pc, server_lock, connection_count,
                   ip_connections, channel, emitted, queues, tokens, burst>>
    /\ UNCHANGED other_vars

\* handle_message(Reconnect(existing_player_id)) from player p
Reconnect(p, existing_player_id) ==
    /\ server_lock = 0
    /\ Drained
    /\ IF existing_player_id # p \/ existing_player_id \notin DOMAIN server_players
       THEN /\ result' = "PlayerNotFound"
            /\ UNCHANGED <<server_players, tasks>>
       ELSE IF server_players[existing_player_id].expired
       THEN /\ result' = "SessionExpired"
            /\ UNCHANGED <<server_players, tasks>>
       ELSE /\ server_players' = [server_players EXCEPT ![existing_player_id].connected = TRUE]
            /\ tasks' = IF existing_player_id \in player_sessions
                        THEN send_to_player(tasks, existing_player_id, Frame("GameState", 0))
                        ELSE tasks
            /\ result' = "Ok"
    /\ UNCHANGED <<game, sit_outs, actions, street_actors, pc, server_lock, connection_count,
                   ip_connections, connected, player_sessions, channel, emitted, queues, tokens, burst>>
    /\ UNCHANGED other_vars

\* The frames the registry sends
SessionFrames ==
    {Frame(kind, 0) : kind \in {"Connected", "GameState", "PlayerDisconnected"}}

\* write_handle: the connection's writer takes the next frame off the queue
\* and sends it over the socket
WriteFrame(c) ==
    /\ queues[c] # <<>>
    /\ queues' = [queues EXCEPT ![c] = Tail(@)]
    /\ UNCHANGED <<engine_vars, registry_vars, pc, server_lock, connection_count, ip_connections,
                   connected, player_sessions, channel, emitted, tasks>>
    /\ UNCHANGED other_vars

NextSession ==
    \/ \E p \in Talkers, chips \in RegisterChips : RegisterPlayer(p, chips)
    \/ \E p \in Talkers : ConnectSender(p)
    \/ \E p \in Talkers : SessionExpires(p)
    \/ \E p \in Talkers, game_id \in Tables : SeatPlayer(p, game_id)
    \/ \E p \in Talkers : DisconnectPlayer(p)
    \/ \E p \in Talkers, existing \in Talkers : Reconnect(p, existing)
    \/ \E c \in Talkers, frame \in SessionFrames : Deliver([to |-> c, frame |-> frame])
    \/ \E c \in Talkers : WriteFrame(c)

SpecSession == InitAdmit /\ [][NextSession]_vars

-----------------------------------------------------------------------------
(* A connection's read loop behind its token bucket *)

\* RateLimiter::new: the tokens refilled for each second gone by
REFILL_RATE == 10

\* The whole seconds that may have gone by since the bucket's last refill
Elapsed == {0, 1}

\* The connections whose frames are read
Limited == Talkers

\* The frames a client sends
FrameTypes == {"Connect", "Action"}

\* TokenBucketRateLimiter::allow with `t` tokens in the bucket, `elapsed`
\* seconds after the last refill: whether it allows, and the tokens it leaves
allow(t, elapsed) ==
    LET refill == elapsed * REFILL_RATE
        available_tokens == IF refill > 0 THEN Min(MaxTokens, t + refill) ELSE t
    IN  IF available_tokens = 0 THEN [ok |-> FALSE, tokens |-> t]
        ELSE [ok |-> TRUE, tokens |-> available_tokens - 1]

\* History of a connection's traffic: the Action frames counted so far in a run
\* that began with the full bucket, after one more frame of `type` is read
\* `elapsed` seconds after the last refill with `t` tokens in the bucket. A
\* frame that finds the bucket refilled to its capacity begins a new run.
Burst(n, t, type, elapsed) ==
    IF type # "Action" THEN -1
    ELSE IF elapsed > 0
         THEN (IF Min(MaxTokens, t + elapsed * REFILL_RATE) = MaxTokens THEN 1 ELSE -1)
         ELSE (IF n >= 0 THEN n + 1 ELSE -1)

\* read loop: a text frame arrives; a frame the bucket denies is answered with
\* an Error frame and ends the loop, any other frame is dispatched on its type
ReadFrame(c, type, elapsed) ==
    /\ pc[c] = "read"
    /\ IF allow(tokens[c], elapsed).ok
       THEN /\ tokens' = [tokens EXCEPT ![c] = allow(tokens[c], elapsed).tokens]
            /\ pc' = [pc EXCEPT ![c] = IF type = "Connect" THEN "handle_connect"
                                       ELSE "handle_action"]
            /\ UNCHANGED tasks
       ELSE /\ server_lock = 0
            /\ tasks' = send_to_player(tasks, c, Frame("Error", 0))
            /\ pc' = [pc EXCEPT ![c] = "cleanup"]
            /\ UNCHANGED tokens
    /\ burst' = [burst EXCEPT ![c] = Burst(burst[c], tokens[c], type, elapsed)]
    /\ UNCHANGED <<engine_vars, server_players, server_lock, connection_count, ip_connections,
                   connected, player_sessions, channel, emitted, queues>>
    /\ UNCHANGED other_vars

\* MessageHandler::handle_connect -> handle_message(Connect) -> seat_player
HandleConnectFrame(c) ==
    /\ pc[c] = "handle_connect"
    /\ server_lock = 0
    /\ IF c \in player_sessions \/ emitted >= MaxEvents
       THEN UNCHANGED <<player_sessions, channel, emitted, tasks>>
       ELSE /\ player_sessions' = player_sessions \cup {c}
            /\ channel' = send_event(channel, emitted + 1)
            /\ emitted' = emitted + 1
            /\ tasks' = send_to_player(send_to_player(tasks, c, Frame("Connected", 0)),
                                       c, Frame("GameState", 0))
    /\ pc' = [pc EXCEPT ![c] = "read"]
    /\ UNCHANGED <<engine_vars, registry_vars, server_lock, connection_count, ip_connections,
                   connected, queues>>
    /\ UNCHANGED other_vars

\* MessageHandler::handle_action: an action the bucket denies is dropped with
\* a warning; any other goes to send_action, which takes the lock and calls
\* handle_message(Action), and on Err calls send_error with the lock held
HandleActionFrame(c, elapsed) ==
    /\ pc[c] = "handle_action"
    /\ IF ~allow(tokens[c], elapsed).ok
       THEN /\ pc' = [pc EXCEPT ![c] = "read"]
            /\ UNCHANGED <<tokens, server_lock, channel, emitted>>
       ELSE /\ server_lock = 0
            /\ tokens' = [tokens EXCEPT ![c] = allow(tokens[c], elapsed).tokens]
            /\ IF c \in player_sessions /\ emitted < MaxEvents
               THEN /\ channel' = send_event(channel, emitted + 1)
                    /\ emitted' = emitted + 1
                    /\ pc' = [pc EXCEPT ![c] = "read"]
                    /\ UNCHANGED server_lock
               ELSE /\ pc' = [pc EXCEPT ![c] = "send_error"]
                    /\ server_lock' = c
                    /\ UNCHANGED <<channel, emitted>>
    /\ burst' = [burst EXCEPT ![c] = IF elapsed = 0 THEN burst[c] ELSE -1]
    /\ UNCHANGED <<engine_vars, server_players, connection_count, ip_connections, connected,
                   player_sessions, tasks, queues>>
    /\ UNCHANGED other_vars

\* send_error is not among the steps: here it is only ever called by
\* send_action, which holds the lock that send_error waits for
NextLimit ==
    \/ \E c \in Limited : Accept(c)
    \/ \E c \in Limited : CanAccept(c)
    \/ \E c \in Limited : Register(c)
    \/ \E c \in Limited : Handshake(c)
    \/ \E c \in Limited : ConnectPlayer(c)
    \/ \E c \in Limited, type \in FrameTypes, elapsed \in Elapsed : ReadFrame(c, type, elapsed)
    \/ \E c \in Limited : HandleConnectFrame(c)
    \/ \E c \in Limited, elapsed \in Elapsed : HandleActionFrame(c, elapsed)
    \/ \E c \in Limited : Cleanup(c)
    \/ \E c \in Limited, frame \in Frames : Deliver([to |-> c, frame |-> frame])

SpecLimit == InitAdmit /\ [][NextLimit]_vars

-----------------------------------------------------------------------------
(* Signed messages: SignedMessage::verify with its NonceCache *)

\* The nonces clients present
Nonces == 1 .. (MaxCache + 1)

\* How far an envelope's timestamp lies from the server clock
Offsets == {0 - 2 * ClockStep, 0 - ClockStep, 0, ClockStep, 2 * ClockStep}

\* What an envelope carries: a message signed with the key, one signed with
\* another key, or a signed text that is no ClientMessage
Payloads == {"valid", "forged", "garbled"}

\* u64::saturating_sub
saturating_sub(a, b) == IF a >= b THEN a - b ELSE 0

\* HashMap::retain of is_duplicate: the entries younger than NONCE_EXPIRY_MS
Retained(data, t) ==
    [n \in {k \in DOMAIN data : t - data[k] < NONCE_EXPIRY_MS} |-> data[n]]

\* `while data.len() >= NONCE_CACHE_SIZE`: remove an entry of the least
\* timestamp; among equal timestamps min_by_key takes the first in the
\* HashMap's iteration order, which may be any of them
RECURSIVE Evicted(_)
Evicted(data) ==
    IF Cardinality(DOMAIN data) < MaxCache THEN {data}
    ELSE UNION {Evicted([n \in DOMAIN data \ {oldest} |-> data[n]]) :
                  oldest \in {k \in DOMAIN data :
                                \A j \in DOMAIN data : data[k] <= data[j]}}

\* NonceCache::is_duplicate at instant t: whether the nonce is a duplicate,
\* and the cache it leaves
is_duplicate(data, nonce, t) ==
    IF nonce \in DOMAIN Retained(data, t)
    THEN {[dup |-> TRUE, data |-> Retained(data, t)]}
    ELSE {[dup |-> FALSE,
           data |-> [n \in DOMAIN d \cup {nonce} |-> IF n = nonce THEN t ELSE d[n]]] :
            d \in Evicted(Retained(data, t))}

\* SignedMessage::verify of an envelope with the given timestamp, nonce and
\* payload: the result, and the cache after it
verify(timestamp, nonce, payload) ==
    IF saturating_sub(now, timestamp) > MESSAGE_TIMESTAMP_MAX_DIFF_MS
    THEN {[res |-> "MessageExpired", data |-> nonce_cache]}
    ELSE {[res |-> IF r.dup THEN "DuplicateNonce"
                   ELSE IF payload = "forged" THEN "InvalidSignature"
                   ELSE IF payload = "garbled" THEN "JsonDeserialize"
                   ELSE "Ok",
           data |-> r.data] : r \in is_duplicate(nonce_cache, nonce, now)}

\* Time goes by
Tick ==
    /\ now < StartClock + MaxTicks * ClockStep
    /\ now' = now + ClockStep
    /\ UNCHANGED <<nonce_cache, accepted_at, verified>>
    /\ UNCHANGED <<engine_vars, server_vars, registry_vars, main_vars, call_vars>>
    /\ UNCHANGED limiter_vars

\* A signed envelope arrives and is verified
Verify(offset, nonce, payload) ==
    /\ \E v \in verify(now + offset, nonce, payload) :
         /\ verified' = v.res
         /\ nonce_cache' = v.data
         /\ accepted_at' =
              IF v.res \in {"MessageExpired", "DuplicateNonce"} THEN accepted_at
              ELSE [n \in DOMAIN accepted_at \cup {nonce} |->
                      IF n = nonce THEN now ELSE accepted_at[n]]
    /\ UNCHANGED now
    /\ UNCHANGED <<engine_vars, server_vars, registry_vars, main_vars, call_vars>>
    /\ UNCHANGED limiter_vars

NextVerify ==
    \/ Tick
    \/ \E offset \in Offsets, nonce \in Nonces, payload \in Payloads :
         Verify(offset, nonce, payload)

SpecVerify == InitAdmit /\ [][NextVerify]_vars

-----------------------------------------------------------------------------
(* main: the signal task and the accept loop *)

\* main: the handles retained are cleaned up every CLEANUP_INTERVAL accepts
CLEANUP_INTERVAL == 5

\* The connections that may wait on the listener at once
MaxBacklog == 2

\* _signal_task: wait_for_shutdown_signal returns and the flag is stored
Signal ==
    /\ ~shutdown
    /\ shutdown' = TRUE
    /\ UNCHANGED <<supervisor, backlog>>
    /\ UNCHANGED <<engine_vars, server_vars, registry_vars, protocol_vars, call_vars>>
    /\ UNCHANGED inactivity
    /\ UNCHANGED limiter_vars

\* A client connects to the listener
ClientConnects ==
    /\ backlog < MaxBacklog
    /\ supervisor.pc \in {"loop", "accept"}
    /\ backlog' = backlog + 1
    /\ UNCHANGED <<shutdown, supervisor>>
    /\ UNCHANGED <<engine_vars, server_vars, registry_vars, protocol_vars, call_vars>>
    /\ UNCHANGED inactivity
    /\ UNCHANGED limiter_vars

\* `while !shutdown_state.is_shutdown_requested()`: the test of the flag
LoopTest ==
    /\ supervisor.pc = "loop"
    /\ supervisor' = [supervisor EXCEPT !.pc = IF shutdown THEN "draining" ELSE "accept"]
    /\ UNCHANGED <<shutdown, backlog>>
    /\ UNCHANGED <<engine_vars, server_vars, registry_vars, protocol_vars, call_vars>>
    /\ UNCHANGED inactivity
    /\ UNCHANGED limiter_vars

\* `listener.accept().await` returns a connection: its handler is spawned and
\* its handle pushed; every CLEANUP_INTERVAL-th time the finished handles,
\* however many they are, are dropped from active_connections
AcceptReturns ==
    /\ supervisor.pc = "accept"
    /\ backlog > 0
    /\ supervisor.active_connections < MaxConns
    /\ backlog' = backlog - 1
    /\ \E finished \in 0 .. (supervisor.active_connections + 1) :
         supervisor' =
           IF supervisor.cleanup_counter + 1 >= CLEANUP_INTERVAL
           THEN [pc |-> "loop",
                 active_connections |-> supervisor.active_connections + 1 - finished,
                 cleanup_counter |-> 0]
           ELSE [pc |-> "loop",
                 active_connections |-> supervisor.active_connections + 1,
                 cleanup_counter |-> supervisor.cleanup_counter + 1]
    /\ UNCHANGED shutdown
    /\ UNCHANGED <<engine_vars, server_vars, registry_vars, protocol_vars, call_vars>>
    /\ UNCHANGED inactivity
    /\ UNCHANGED limiter_vars

\* `listener.accept().await` returns an error: `continue`
AcceptFails ==
    /\ supervisor.pc = "accept"
    /\ backlog > 0
    /\ backlog' = backlog - 1
    /\ supervisor' = [supervisor EXCEPT !.pc = "loop"]
    /\ UNCHANGED shutdown
    /\ UNCHANGED <<engine_vars, server_vars, registry_vars, protocol_vars, call_vars>>
    /\ UNCHANGED inactivity
    /\ UNCHANGED limiter_vars

\* The shutdown sequence: the handles are waited for (each at most 2 s) and
\* the broadcast and inactivity tasks are dropped
Drain ==
    /\ supervisor.pc = "draining"
    /\ supervisor' = [supervisor EXCEPT !.pc = "done", !.active_connections = 0]
    /\ UNCHANGED <<shutdown, backlog>>
    /\ UNCHANGED <<engine_vars, server_vars, registry_vars, protocol_vars, call_vars>>
    /\ UNCHANGED inactivity
    /\ UNCHANGED limiter_vars

NextShutdown ==
    \/ Signal
    \/ ClientConnects
    \/ LoopTest
    \/ AcceptReturns
    \/ AcceptFails
    \/ Drain

\* The runtime goes on running main whenever it can take a step; nothing
\* makes a signal arrive or a client connect
SpecShutdown ==
    /\ InitAdmit
    /\ [][NextShutdown]_vars
    /\ WF_vars(LoopTest)
    /\ WF_vars(AcceptReturns)
    /\ WF_vars(AcceptFails)
    /\ WF_vars(Drain)

-----------------------------------------------------------------------------
(* The evaluator as a function of the cards: evaluate_hand on two hands *)

\* The hands evaluated: the hole cards followed by the community cards
Hands ==
    { \* A 2 3 4 5 6 of mixed suits and a nine
      << Card("Spades", 14), Card("Hearts", 2), Card("Clubs", 3), Card("Diamonds", 4),
         Card("Spades", 5), Card("Hearts", 6), Card("Clubs", 9) >>,
      \* 2 3 4 5 6 of mixed suits
      << Card("Clubs", 2), Card("Diamonds", 3), Card("Hearts", 4), Card("Spades", 5),
         Card("Clubs", 6) >>,
      \* A 2 3 4 5 of mixed suits, a pair of aces
      << Card("Clubs", 14), Card("Diamonds", 14), Card("Hearts", 2), Card("Spades", 3),
         Card("Clubs", 4), Card("Diamonds", 5), Card("Hearts", 9) >>,
      \* six hearts: 2 3 4 5 6 and the king
      << Card("Hearts", 13), Card("Hearts", 2), Card("Hearts", 3), Card("Hearts", 4),
         Card("Hearts", 5), Card("Hearts", 6) >>,
      \* five hearts 9 10 J Q K
      << Card("Hearts", 9), Card("Hearts", 10), Card("Hearts", 11), Card("Hearts", 12),
         Card("Hearts", 13) >>,
      \* five spades, no straight
      << Card("Spades", 14), Card("Spades", 11), Card("Spades", 8), Card("Spades", 6),
         Card("Spades", 3), Card("Hearts", 3), Card("Clubs", 11) >>,
      \* four sevens
      << Card("Clubs", 7), Card("Diamonds", 7), Card("Hearts", 7), Card("Spades", 7),
         Card("Clubs", 12), Card("Diamonds", 12), Card("Hearts", 2) >>,
      \* three kings and three fours
      << Card("Clubs", 13), Card("Diamonds", 13), Card("Hearts", 13), Card("Spades", 4),
         Card("Clubs", 4), Card("Diamonds", 4), Card("Hearts", 8) >>,
      \* three nines
      << Card("Clubs", 9), Card("Diamonds", 9), Card("Hearts", 9), Card("Spades", 14),
         Card("Clubs", 5), Card("Diamonds", 3), Card("Hearts", 2) >>,
      \* three pairs: queens, eights, threes
      << Card("Clubs", 12), Card("Diamonds", 12), Card("Hearts", 8), Card("Spades", 8),
         Card("Clubs", 3), Card("Diamonds", 3), Card("Hearts", 14) >>,
      \* a pair of twos
      << Card("Clubs", 2), Card("Diamonds", 2), Card("Hearts", 14), Card("Spades", 13),
         Card("Clubs", 9), Card("Diamonds", 7), Card("Hearts", 4) >>,
      \* a pair of aces
      << Card("Clubs", 14), Card("Diamonds", 14), Card("Hearts", 13), Card("Spades", 9),
         Card("Clubs", 7), Card("Diamonds", 4), Card("Hearts", 3) >>,
      \* ace high
      << Card("Clubs", 14), Card("Diamonds", 12), Card("Hearts", 10), Card("Spades", 8),
         Card("Clubs", 6), Card("Diamonds", 4), Card("Hearts", 2) >> }

\* showdown evaluates two players' hands
EvaluateHands ==
    /\ returned = << >>
    /\ \E a \in evaluate_cards(args[1]), b \in evaluate_cards(args[2]) : returned' = <<a, b>>
    /\ UNCHANGED args
    /\ UNCHANGED <<engine_vars, server_vars, registry_vars, protocol_vars, main_vars>>
    /\ UNCHANGED limiter_vars

InitEval ==
    /\ InitServer /\ game = NewGame /\ result = "none" /\ sit_outs = 0 /\ actions = 0
    /\ street_actors = {}
    /\ args \in Hands \X Hands
    /\ returned = << >>

NextEval ==
    \/ EvaluateHands

SpecEval == InitEval /\ [][NextEval]_vars

-----------------------------------------------------------------------------
(* calculate_side_pots as a function of the players' bets *)

\* The players at the table, in the orders their HashMap is iterated in
PotPlayers == {"p1", "p2", "p3"}
PotOrders == {<<"p1", "p2", "p3">>, <<"p3", "p1", "p2">>}

\* What a player may have as current_bet at showdown
PotBets == {0, SMALL_BLIND, BIG_BLIND, BIG_BLIND + BIG_BLIND + SMALL_BLIND}

\* The tables calculate_side_pots is called on
PotTables ==
    {[NewGame EXCEPT !.order = order,
                     !.players = [id \in PotPlayers |->
                         [NewPlayerState(STARTING_CHIPS) EXCEPT !.current_bet = bets[id],
                                                               !.is_folded = folded[id]]]] :
       order \in PotOrders, bets \in [PotPlayers -> PotBets], folded \in [PotPlayers -> BOOLEAN]}

\* showdown: `let side_pots = self.calculate_side_pots()`
CalculateSidePots ==
    /\ returned = << >>
    /\ returned' = [side_pots |-> calculate_side_pots(args)]
    /\ UNCHANGED args
    /\ UNCHANGED <<engine_vars, server_vars, registry_vars, protocol_vars, main_vars>>
    /\ UNCHANGED limiter_vars

InitPots ==
    /\ InitServer /\ game = NewGame /\ result = "none" /\ sit_outs = 0 /\ actions = 0
    /\ street_actors = {}
    /\ args \in PotTables
    /\ returned = << >>

NextPots ==
    \/ CalculateSidePots

SpecPots == InitPots /\ [][NextPots]_vars

-----------------------------------------------------------------------------
(* The split of one pot among the winners (showdown's winnings_distribution) *)

\* The sequences without repetition of the players in S: a Vec of ids
RECURSIVE Lists(_)
Lists(S) ==
    {<< >>} \cup UNION {{<<id>> \o rest : rest \in Lists(S \ {id})} : id \in S}

\* One pot of calculate_side_pots and the winners of the showdown
Splits ==
    {[pot |-> [amount |-> amount, eligible |-> eligible], winners |-> winners] :
       amount \in 0..MaxSplit,
       eligible \in PotOrders \cup {<<"p1", "p2">>, <<"p2">>, <<"p3", "p1">>},
       winners \in Lists(PotPlayers) \ {<< >>}}

\* showdown: one pass of `for (pot_amount, eligible_players) in side_pots`
SplitPot ==
    /\ returned = << >>
    /\ returned' = [distributed |-> PotWinnings(args.pot, args.winners)]
    /\ UNCHANGED args
    /\ UNCHANGED <<engine_vars, server_vars, registry_vars, protocol_vars, main_vars>>
    /\ UNCHANGED limiter_vars

InitSplit ==
    /\ InitServer /\ game = NewGame /\ result = "none" /\ sit_outs = 0 /\ actions = 0
    /\ street_actors = {}
    /\ args \in Splits
    /\ returned = << >>

NextSplit ==
    \/ SplitPot

SpecSplit == InitSplit /\ [][NextSplit]_vars

-----------------------------------------------------------------------------
(* showdown as a function of the table *)

\* The hole cards a player may hold
HoleCards ==
    { << Card("Clubs", 2), Card("Diamonds", 2) >>,
      << Card("Hearts", 2), Card("Spades", 2) >>,
      << Card("Clubs", 14), Card("Diamonds", 14) >>,
      << Card("Hearts", 14), Card("Spades", 3) >>,
      << Card("Diamonds", 13), Card("Clubs", 5) >>,
      << Card("Hearts", 9), Card("Spades", 8) >> }

\* The community cards on the river
Boards ==
    { << Card("Clubs", 13), Card("Diamonds", 12), Card("Hearts", 11), Card("Spades", 7),
         Card("Clubs", 4) >>,
      << Card("Spades", 10), Card("Hearts", 11), Card("Clubs", 12), Card("Hearts", 13),
         Card("Spades", 14) >> }

\* The tables showdown is called on: two players that have matched a bet
ShowdownTables ==
    {[NewGame EXCEPT !.order = <<"p1", "p2">>,
                     !.players = [id \in {"p1", "p2"} |->
                         [NewPlayerState(STARTING_CHIPS - bet) EXCEPT
                              !.current_bet = bet,
                              !.has_acted = TRUE,
                              !.hole_cards = IF id = "p1" THEN hole1 ELSE hole2]],
                     !.community_cards = board,
                     !.pot = bet + bet,
                     !.current_street = "River",
                     !.game_stage = "BettingRound(Preflop)",
                     !.hand_number = 1] :
       <<hole1, hole2>> \in {hh \in HoleCards \X HoleCards : hh[1] # hh[2]}, board \in Boards,
       bet \in {BIG_BLIND, BIG_BLIND + SMALL_BLIND}}

\* advance_action on the river: showdown
Showdown ==
    /\ returned = << >>
    /\ \E g \in showdown(args) : returned' = [settled |-> g.settled]
    /\ UNCHANGED args
    /\ UNCHANGED <<engine_vars, server_vars, registry_vars, protocol_vars, main_vars>>
    /\ UNCHANGED limiter_vars

InitShowdown ==
    /\ InitServer /\ game = NewGame /\ result = "none" /\ sit_outs = 0 /\ actions = 0
    /\ street_actors = {}
    /\ args \in ShowdownTables
    /\ returned = << >>

NextShowdown ==
    \/ Showdown

SpecShowdown == InitShowdown /\ [][NextShowdown]_vars

-----------------------------------------------------------------------------
(* main's inactivity_task beside the calls on the engine *)

\* `g.players.values().filter(|p| !p.is_sitting_out).count()`
active_count(g) == Cardinality({id \in DOMAIN g.players : ~g.players[id].is_sitting_out})

\* inactivity_task wakes up, locks the game and counts; the lock is released
\* at the end of the block, before the count is looked at
InactivityCount ==
    /\ inactivity = "sleep"
    /\ inactivity' = IF active_count(game) < 2 THEN "force" ELSE "sleep"
    /\ UNCHANGED <<shutdown, supervisor, backlog>>
    /\ UNCHANGED <<engine_vars, server_vars, registry_vars, protocol_vars, call_vars>>
    /\ UNCHANGED limiter_vars

\* inactivity_task, having counted fewer than 2: it locks the game again and
\* sets the stage if there is any player
InactivityForce ==
    /\ inactivity = "force"
    /\ game' = IF DOMAIN game.players # {}
               THEN [game EXCEPT !.game_stage = "WaitingForPlayers"] ELSE game
    /\ inactivity' = "sleep"
    /\ UNCHANGED <<result, sit_outs, actions, street_actors>>
    /\ UNCHANGED <<shutdown, supervisor, backlog>>
    /\ UNCHANGED <<server_vars, registry_vars, protocol_vars, call_vars>>
    /\ UNCHANGED limiter_vars

\* The actions clients send while the task runs
RefreshActions == {Action("Fold", 0), Action("Call", 0)}

NextRefresh ==
    \/ \E id \in Ids : AddPlayer(id)
    \/ \E id \in Ids, action \in RefreshActions : HandleAction(id, action)
    \/ \E id \in Ids : SitOut(id)
    \/ \E id \in Ids : Return(id)
    \/ InactivityCount
    \/ InactivityForce

SpecRefresh == Init /\ [][NextRefresh]_vars

-----------------------------------------------------------------------------
(* A table with three seats *)

\* The players that come to the table
Seats == {"p1", "p2", "p3"}

\* The chips they bring
SeatStacks == [p1 |-> {50}, p2 |-> {200}, p3 |-> {200}]

\* The actions they submit
SeatActions == {Action("Fold", 0), Action("Call", 0), Action("AllIn", 0)}

\* seat_player -> add_player, for a player that is not seated yet
TakeSeat(id) ==
    /\ id \notin DOMAIN game.players
    /\ \E chips \in SeatStacks[id] : game' \in add_player(Fresh(game), id, chips)
    /\ result' = "Ok"
    /\ street_actors' = StreetActors(game, game', street_actors)
    /\ UNCHANGED <<sit_outs, actions>>
    /\ UNCHANGED <<server_vars, registry_vars, other_vars>>

NextSeat ==
    \/ \E id \in Seats : TakeSeat(id)
    \/ \E id \in Seats, action \in SeatActions : HandleAction(id, action)

SpecSeat == Init /\ [][NextSeat]_vars

-----------------------------------------------------------------------------
(* The evaluator on one set of cards, given in two orders *)

\* Hands with more than one candidate for the trips or the pair of a full house
FullHouses ==
    { \* three jacks, a pair of nines and a pair of fives
      << Card("Clubs", 11), Card("Diamonds", 11), Card("Hearts", 11), Card("Spades", 9),
         Card("Clubs", 9), Card("Diamonds", 5), Card("Hearts", 5) >>,
      \* three sixes and three tens, and a queen
      << Card("Clubs", 6), Card("Diamonds", 6), Card("Hearts", 6), Card("Spades", 10),
         Card("Clubs", 10), Card("Diamonds", 10), Card("Hearts", 12) >> }

\* The orders in which the cards of a hand are given: as dealt, reversed, and
\* with the two hole cards after the community cards
Reorderings(cards) ==
    {cards, Reverse(cards), SubSeq(cards, 3, Len(cards)) \o SubSeq(cards, 1, 2)}

InitOrder ==
    /\ InitServer /\ game = NewGame /\ result = "none" /\ sit_outs = 0 /\ actions = 0
    /\ street_actors = {}
    /\ args \in UNION {{<<cards, again>> : again \in Reorderings(cards)} :
                          cards \in Hands \cup FullHouses}
    /\ returned = << >>

SpecOrder == InitOrder /\ [][NextEval]_vars

-----------------------------------------------------------------------------
(* The engine with players that act when it is their turn *)

\* A player that is able to act: in the hand, at the table, with chips left
CanAct(g, id) ==
    /\ id \in DOMAIN g.players
    /\ ~g.players[id].is_folded
    /\ ~g.players[id].is_sitting_out
    /\ ~g.players[id].is_all_in
    /\ g.players[id].chips > 0

\* The actions the players submit
TurnActions == {Action(k, 0) : k \in {"Fold", "Check", "Call", "AllIn"}}

\* handle_action accepts an action of the player-to-act, who is able to act;
\* `actions` counts the accepted actions
Act ==
    /\ game.hand_number <= MaxHands
    /\ actions < MaxActions
    /\ CanAct(game, game.current_player_id)
    /\ actions' = actions + 1

NextTurns ==
    \/ \E id \in Ids : AddPlayer(id)
    \/ \E id \in Ids, action \in TurnActions : HandleAction(id, action)
    \/ \E id \in Ids : SitOut(id)
    \/ \E id \in Ids : Return(id)

\* Whenever the player-to-act can submit a legal action, one is submitted
SpecTurns == Init /\ [][NextTurns]_vars /\ WF_actions(Act)

-----------------------------------------------------------------------------
(* TokenBucketRateLimiter::allow called by several tasks (main.rs:51-97).   *)
(* Each load, compare_exchange and store of an atomic is one step.          *)

\* the local `refill` of a caller that has read now_ms and last_update_ms
refill(t) ==
    (saturating_sub(t.now_ms, t.last_update_ms) \div 1000) * bucket.refill_rate

\* the local `available_tokens`
available_tokens(t) ==
    IF refill(t) > 0 THEN Min(bucket.max_tokens, t.tokens + refill(t)) ELSE t.tokens

\* A second goes by on the system clock
Second ==
    /\ wall < MaxSeconds * 1000
    /\ wall' = wall + 1000
    /\ UNCHANGED <<bucket, threads, admitted>>
    /\ UNCHANGED <<engine_vars, server_vars, registry_vars, protocol_vars, main_vars, call_vars>>

\* allow() is entered: now_ms is read off the system clock
ReadClock(c) ==
    /\ threads[c].pc = "idle"
    /\ threads' = [threads EXCEPT ![c] = [Idle EXCEPT !.pc = "load_tokens", !.now_ms = wall]]
    /\ UNCHANGED <<bucket, wall, admitted>>
    /\ UNCHANGED <<engine_vars, server_vars, registry_vars, protocol_vars, main_vars, call_vars>>

\* self.tokens.load
LoadTokens(c) ==
    /\ threads[c].pc = "load_tokens"
    /\ threads' = [threads EXCEPT ![c].tokens = bucket.tokens, ![c].pc = "load_last_update_ms"]
    /\ UNCHANGED <<bucket, wall, admitted>>
    /\ UNCHANGED <<engine_vars, server_vars, registry_vars, protocol_vars, main_vars, call_vars>>

\* self.last_update_ms.load; with no token available allow() returns false
LoadLastUpdate(c) ==
    /\ threads[c].pc = "load_last_update_ms"
    /\ LET t == [threads[c] EXCEPT !.last_update_ms = bucket.last_update_ms]
       IN  threads' = [threads EXCEPT ![c] =
                          IF available_tokens(t) = 0 THEN Idle
                          ELSE [t EXCEPT !.pc = "compare_exchange"]]
    /\ UNCHANGED <<bucket, wall, admitted>>
    /\ UNCHANGED <<engine_vars, server_vars, registry_vars, protocol_vars, main_vars, call_vars>>

\* self.tokens.compare_exchange(tokens, new_tokens): on failure the loop starts
\* again; on success allow() returns true, after the store when refill > 0
CompareExchange(c) ==
    /\ threads[c].pc = "compare_exchange"
    /\ LET t == threads[c]
       IN  IF bucket.tokens = t.tokens
           THEN /\ bucket' = [bucket EXCEPT !.tokens = available_tokens(t) - 1]
                /\ threads' = [threads EXCEPT ![c] =
                                  IF refill(t) > 0 THEN [t EXCEPT !.pc = "store"] ELSE Idle]
                /\ admitted' = IF refill(t) > 0 THEN admitted ELSE admitted + 1
           ELSE /\ threads' = [threads EXCEPT ![c].pc = "load_tokens"]
                /\ UNCHANGED <<bucket, admitted>>
    /\ UNCHANGED wall
    /\ UNCHANGED <<engine_vars, server_vars, registry_vars, protocol_vars, main_vars, call_vars>>

\* self.last_update_ms.store(now_ms), and allow() returns true
StoreLastUpdate(c) ==
    /\ threads[c].pc = "store"
    /\ bucket' = [bucket EXCEPT !.last_update_ms = threads[c].now_ms]
    /\ threads' = [threads EXCEPT ![c] = Idle]
    /\ admitted' = admitted + 1
    /\ UNCHANGED wall
    /\ UNCHANGED <<engine_vars, server_vars, registry_vars, protocol_vars, main_vars, call_vars>>

NextAllow ==
    \/ Second
    \/ \E c \in Callers : ReadClock(c)
    \/ \E c \in Callers : LoadTokens(c)
    \/ \E c \in Callers : LoadLastUpdate(c)
    \/ \E c \in Callers : CompareExchange(c)
    \/ \E c \in Callers : StoreLastUpdate(c)

SpecAllow == InitAdmit /\ [][NextAllow]_vars

-----------------------------------------------------------------------------
(* Properties of the engine *)

\* The players broadcast_to_game delivers a table event to: every seated player
Receivers(g) == DOMAIN g.players

\* The events of `tx` before the first Showdown event
RECURSIVE BeforeShowdown(_)
BeforeShowdown(tx) ==
    IF tx = <<>> \/ tx[1].type = "Showdown" THEN <<>>
    ELSE <<tx[1]>> \o BeforeShowdown(Tail(tx))

\* The eligible players of a pot whose evaluation no eligible player beats
BestIn(eligible, evals) ==
    {id \in eligible : \A other \in eligible : ~EvalLess(evals[id], evals[other])}

\* C1: chip conservation within a hand: the chips credited to the winners when
\* a hand is settled are exactly the chips that went into the pot in that hand.
C1_SettlementPaysThePot ==
    game.settled.hand >= 1 => game.settled.paid = game.settled.pot

\* C2: at showdown every side pot goes to the best hand(s) among the players
\* eligible for that pot, also when a player outside the pot holds a better hand.
C2_SidePotsToBestEligible ==
    game.settled.hand >= 1 =>
        \A k \in 1..Len(game.settled.pots) :
            game.settled.pots[k].paid_to =
                BestIn(game.settled.pots[k].eligible, game.settled.evals)

\* C3: a Fold that leaves exactly one player who has not folded credits that
\* player with the whole pot, without a showdown.
C3_FoldAwardsPot ==
    [][\A id \in Ids :
         LET remaining == {r \in DOMAIN game.players : ~game.players[r].is_folded} \ {id}
         IN  (/\ game.hand_number >= 1
              /\ game.game_stage = "BettingRound(Preflop)"
              /\ id \in DOMAIN game.players
              /\ ~game.players[id].is_folded
              /\ Cardinality(remaining) = 1
              /\ HandleAction(id, Action("Fold", 0))
              /\ result' = "Ok")
             => \A r \in remaining :
                    game'.players[r].chips
                      + (IF game'.hand_number > game.hand_number
                         THEN game'.players[r].current_bet ELSE 0)
                    = game.players[r].chips + game.pot]_vars

\* C4: a handle_action call that returns an error leaves the whole game as it
\* was and sends no event on the broadcast channel.
C4_ErrorsLeaveTheGameUnchanged ==
    [][result' # "Ok" => game' = Fresh(game)]_vars

\* A rejected action in a hand that is under way
C4_Witness ==
    /\ result \in {"NotYourTurn", "CannotCheck", "MinRaise", "BetExceedsChips", "InvalidAmount"}
    /\ game.hand_number >= 1
    /\ game.pot > 0
    /\ game.tx = <<>>

\* C9: before the Showdown event no event delivered to a player shows the hole
\* cards of another player: they appear as [hidden].
C9_HoleCardsHidden ==
    \A receiver \in Receivers(game) :
        \A i \in 1..Len(BeforeShowdown(game.tx)) :
            BeforeShowdown(game.tx)[i].type = "PlayerUpdates" =>
                \A j \in 1..Len(BeforeShowdown(game.tx)[i].players) :
                    BeforeShowdown(game.tx)[i].players[j].player_id # receiver =>
                        BeforeShowdown(game.tx)[i].players[j].hole_cards = <<"[hidden]">>

\* C10: the pot stays within 0..MAX_POT; a contribution that would take it
\* beyond MAX_POT is rejected with InvalidBet.
C10_PotWithinBounds ==
    0 <= game.pot /\ game.pot <= MAX_POT

\* An all-in that would take the pot beyond MAX_POT was rejected
C10_Witness ==
    /\ result = "InvalidBet"
    /\ \E id \in DOMAIN game.players :
          /\ game.current_player_id = id
          /\ game.players[id].chips > MAX_POT - game.pot

\* C11: handle_action succeeds only for the player-to-act: a call by any other
\* player, whatever the action, returns NotYourTurn.
C11_OnlyThePlayerToActSucceeds ==
    [][\A id \in Ids, action \in Actions :
         (id # game.current_player_id /\ HandleAction(id, action))
             => result' = "NotYourTurn"]_vars

\* C12: turn ordering: after every successful handle_action the player-to-act
\* is an active player other than the one who just acted, unless only one
\* active player remains; also when the action settled the hand and started
\* the next one.
C12_TurnPassesToAnotherActivePlayer ==
    [][\A id \in Ids, action \in Actions :
         (/\ HandleAction(id, action)
          /\ result' = "Ok"
          /\ Len(get_active_player_ids(game')) >= 2)
         => (/\ game'.current_player_id \in Range(get_active_player_ids(game'))
             /\ game'.current_player_id # id)]_vars

\* C13: each street is a betting round of its own: when an action moves the
\* hand on to the next street, every player still in the hand who is not
\* all-in has acted on the street that ends; flags and bets of an earlier
\* street never carry a street.
C13_EveryStreetIsPlayed ==
    [][\A id \in Ids, action \in Actions :
         (/\ HandleAction(id, action)
          /\ result' = "Ok"
          /\ game.hand_number >= 1
          /\ game'.hand_number = game.hand_number
          /\ game'.current_street # game.current_street)
         => \A p \in DOMAIN game'.players :
                (/\ ~game'.players[p].is_folded
                 /\ ~game'.players[p].is_all_in
                 /\ ~game'.players[p].is_sitting_out)
                => p \in street_actors \cup {id}]_vars

\* C14: Bet is accepted only while the table current bet (the highest
\* current_bet among the players that have not folded) is 0; while it is
\* greater than 0, Bet fails with an error for every amount.
C14_BetOnlyWhenNothingToCall ==
    [][\A id \in Ids, amount \in BetAmounts :
         (/\ HandleAction(id, Action("Bet", amount))
          /\ game.hand_number >= 1
          /\ get_current_bet(game) > 0)
         => result' # "Ok"]_vars

\* C15: Raise is accepted only while the table current bet is greater than 0;
\* a Raise while the table current bet is 0 fails with CannotRaise.
C15_RaiseNeedsABet ==
    [][\A id \in Ids, amount \in RaiseAmounts :
         (/\ HandleAction(id, Action("Raise", amount))
          /\ id \in DOMAIN game.players
          /\ (IF game.current_player_id # NoPlayer THEN game.current_player_id = id
              ELSE get_active_player_ids(game) # <<>> /\ get_active_player_ids(game)[1] = id)
          /\ get_current_bet(game) = 0)
         => result' = "CannotRaise"]_vars

\* C16: AllIn by the player-to-act is always accepted when the player has
\* chips and the pot stays within MAX_POT, also when the chips do not cover
\* the call; the player is then left with no chips, all-in and marked as
\* having acted, still in the hand.
C16_AllInAlwaysAccepted ==
    [][\A id \in Ids :
         (/\ HandleAction(id, Action("AllIn", 0))
          /\ game.hand_number >= 1
          /\ game.current_player_id = id
          /\ id \in DOMAIN game.players
          /\ game.players[id].chips > 0
          /\ game.players[id].chips <= MAX_POT - game.pot)
         => (/\ result' = "Ok"
             /\ game'.hand_number = game.hand_number
                  => (/\ game'.players[id].chips = 0
                      /\ game'.players[id].is_all_in
                      /\ game'.players[id].has_acted
                      /\ ~game'.players[id].is_folded))]_vars

\* C17: in every reachable state no player has negative chips, and every
\* player who is in the current hand (dealt in or with chips in the pot, not
\* folded, not sitting out) and has no chips left is marked all-in, also when
\* the chips went on a blind.
C17_BrokeMeansAllIn ==
    \A id \in DOMAIN game.players :
        /\ game.players[id].chips >= 0
        /\ (/\ game.hand_number >= 1
            /\ game.game_stage # "WaitingForPlayers"
            /\ ~game.players[id].is_folded
            /\ ~game.players[id].is_sitting_out
            /\ (game.players[id].hole_cards # <<>> \/ game.players[id].current_bet > 0)
            /\ game.players[id].chips = 0)
           => game.players[id].is_all_in

\* The players start_hand finds active before the blinds are posted, read
\* from the table it leaves: the blinds posted are back in the stacks
ActiveAtStart(g) ==
    SelectSeq(Values(g), LAMBDA id :
        ~g.players[id].is_sitting_out /\ g.players[id].chips + g.players[id].current_bet > 0)

\* C30: at hand start the player at the dealer position posts the small
\* blind, the next active player posts the big blind, the first player to act
\* is the active player after the big blind (heads-up: the small blind, who
\* is the dealer), and min_raise is twice the big blind.
C30_BlindsAndFirstToAct ==
    [][(game'.hand_number > game.hand_number /\ Len(ActiveAtStart(game')) >= 2) =>
         LET active == ActiveAtStart(game')
             n == Len(active)
             sb_idx == game'.dealer_position % n
             bb_idx == (sb_idx + 1) % n
             sb == game'.players[active[sb_idx + 1]]
             bb == game'.players[active[bb_idx + 1]]
         IN  /\ sb.current_bet = Min(SMALL_BLIND, sb.chips + sb.current_bet)
             /\ bb.current_bet = Min(BIG_BLIND, bb.chips + bb.current_bet)
             /\ game'.current_player_id = active[((bb_idx + 1) % n) + 1]
             /\ game'.min_raise = 2 * BIG_BLIND]_vars

\* C31: dealing at hand start: after start_hand every player who was not
\* sitting out and had chips when the hand started (also one whose whole
\* stack went into a blind) holds exactly 2 hole cards, every other player
\* holds none, and all hole cards and community cards are pairwise distinct.
C31_TwoHoleCardsEach ==
    [][(game'.hand_number > game.hand_number) =>
         LET g == game'
             dealt == Flatten([i \in 1..Len(Values(g)) |-> g.players[Values(g)[i]].hole_cards])
                        \o g.community_cards
         IN  /\ \A id \in DOMAIN g.players :
                  Len(g.players[id].hole_cards) =
                     IF ~g.players[id].is_sitting_out
                        /\ g.players[id].chips + g.players[id].current_bet > 0
                     THEN 2 ELSE 0
             /\ \A i, j \in 1..Len(dealt) : i # j => dealt[i] # dealt[j]]_vars

\* C32: the periodic stage-refresh task forces game_stage to
\* WaitingForPlayers only where the table has fewer than 2 non-sitting-out
\* players: under every interleaving with seating and action handling it
\* never overwrites the stage of a hand in progress with 2 or more
\* non-sitting-out players.
C32_RefreshOnlyBelowTwoPlayers ==
    [][(InactivityForce /\ game'.game_stage # game.game_stage)
         => active_count(game) < 2]_vars

\* C33: end of hand: after a hand is settled, if at least 2 players have
\* chips and are not sitting out, a new hand is started (hand_number one
\* more, stage BettingRound(Preflop), community cards and per-hand player
\* fields reset); otherwise the stage becomes WaitingForPlayers.
\* HandComplete is never the stage after handle_action returns.
C33_EndOfHandStartsTheNextOrWaits ==
    [][/\ game'.game_stage # "HandComplete"
       /\ game'.ended =>
            \/ /\ game'.hand_number = game.hand_number + 1
               /\ Len(ActiveAtStart(game')) >= 2
               /\ game'.game_stage = "BettingRound(Preflop)"
               /\ game'.current_street = "Preflop"
               /\ game'.community_cards = << >>
               /\ \A p \in DOMAIN game'.players :
                    /\ ~game'.players[p].has_acted
                    /\ ~game'.players[p].is_folded
                    /\ ~game'.players[p].is_all_in
                    /\ game'.players[p].current_bet <= BIG_BLIND
            \/ /\ game'.hand_number = game.hand_number
               /\ game'.game_stage = "WaitingForPlayers"
               /\ Cardinality({p \in DOMAIN game'.players :
                     game'.players[p].chips > 0 /\ ~game'.players[p].is_sitting_out}) < 2]_vars

\* the call has ended hand 1 and started hand 2
C33_Witness ==
    /\ game.ended
    /\ game.hand_number = 2
    /\ game.game_stage = "BettingRound(Preflop)"

\* The players of the table that have chips and are not sitting out
Eligible(g) == {id \in DOMAIN g.players : g.players[id].chips > 0 /\ ~g.players[id].is_sitting_out}

\* C34: a table with 2 or more seated players that have chips and are not sitting out
\* is not in WaitingForPlayers: a hand has started
C34_WaitingTableStartsAHand ==
    game.game_stage = "WaitingForPlayers" => Cardinality(Eligible(game)) < 2

\* C36: while the stage is a betting round, current_player_id names a player
\* of the game who is not folded, not sitting out, not all-in and has chips
C36_PlayerToActCanAct ==
    game.game_stage \in {"BettingRound(Preflop)", "BettingRound(Flop)",
                         "BettingRound(Turn)", "BettingRound(River)"}
    => /\ game.current_player_id \in DOMAIN game.players
       /\ ~game.players[game.current_player_id].is_folded
       /\ ~game.players[game.current_player_id].is_sitting_out
       /\ ~game.players[game.current_player_id].is_all_in
       /\ game.players[game.current_player_id].chips > 0

\* C37: if the player-to-act submits a legal action whenever there is one, a
\* hand that has started is settled: the table waits for players or is in a
\* later hand (or the actions of the model are used up)
C37_StartedHandIsSettled ==
    (game.hand_number = 1 /\ game.game_stage # "WaitingForPlayers")
    ~> (game.hand_number > 1 \/ game.game_stage = "WaitingForPlayers" \/ actions = MaxActions)

-----------------------------------------------------------------------------
(* Properties of the registry, the connection handlers and the router *)

\* C5: a handler whose message was rejected sends its Error frame and goes on;
\* it never waits for the registry lock while it is holding that lock itself.
C5_NoWaitOnOwnLock ==
    \A c \in Conns : pc[c] = "send_error" => server_lock # c

\* C6: per-receiver FIFO: the events in a connection's outbound queue are in
\* the order the engine sent them on the broadcast channel.
C6_PerReceiverFifo ==
    \A c \in Conns :
        \A i, j \in 1..Len(queues[c]) :
            (i < j /\ queues[c][i].kind = "Event" /\ queues[c][j].kind = "Event")
                => queues[c][i].n < queues[c][j].n

\* C7: the admission caps hold in every reachable state: never more than
\* MAX_CONNECTIONS registered connections, never more than
\* MAX_CONNECTIONS_PER_IP of them from one address.
C7_AdmissionCaps ==
    /\ connection_count <= MAX_CONNECTIONS
    /\ \A ip \in Ips : ip_connections[ip] <= MAX_CONNECTIONS_PER_IP

\* C8: no connection slot is leaked: once every handler that was started has
\* terminated, connection_count is 0 and no per-address counter remains.
C8_NoLeakedSlot ==
    (\A c \in Conns : pc[c] \in {"idle", "done"})
        => (connection_count = 0 /\ \A ip \in Ips : ip_connections[ip] = 0)

-----------------------------------------------------------------------------
(* Properties of the session registry *)

\* C18 as stated: seat_player returns an error and changes nothing when the
\* player is unknown, the table is unknown, the player has no chips or the
\* player is seated already.
C18_SeatPlayerAlwaysErrors ==
    [][\A p \in Talkers, game_id \in Tables :
         (/\ SeatPlayer(p, game_id)
          /\ IF p \notin DOMAIN server_players THEN TRUE
             ELSE game_id \notin Games \/ server_players[p].chips <= 0 \/ p \in player_sessions)
         => (/\ result' # "Ok"
             /\ UNCHANGED <<game, server_players, player_sessions, connected, tasks>>)]_vars

\* C18, amended: seat_player returns PlayerNotFound, GameNotFound or NoChips
\* and changes nothing when the player is unknown, the table is unknown or the
\* player has no chips; for a known player with chips that is seated already,
\* at a known table, it returns Ok and changes nothing.
C18_SeatPlayerRejections ==
    [][\A p \in Talkers, game_id \in Tables :
         SeatPlayer(p, game_id) =>
            /\ (IF p \notin DOMAIN server_players THEN TRUE
                ELSE game_id \notin Games \/ server_players[p].chips <= 0)
               => (/\ result' \in {"PlayerNotFound", "GameNotFound", "NoChips"}
                   /\ UNCHANGED <<game, server_players, player_sessions, connected, tasks>>)
            /\ (IF p \notin DOMAIN server_players THEN FALSE
                ELSE game_id \in Games /\ server_players[p].chips > 0 /\ p \in player_sessions)
               => (/\ result' = "Ok"
                   /\ UNCHANGED <<game, server_players, player_sessions, connected, tasks>>)]_vars

\* A player without chips was refused a seat at a table where another sits
C18_Witness ==
    /\ result = "NoChips"
    /\ player_sessions # {}
    /\ \E p \in DOMAIN server_players : server_players[p].chips = 0 /\ ~server_players[p].seated

\* C19: reconnect preserves state: when a seated player was disconnected and
\* sends Reconnect with the same identifier before the session expires, the
\* reconnect is accepted, the player is flagged connected again, a snapshot of
\* the table is sent to the player, and the chips are what they were.
C19_ReconnectRestoresTheSession ==
    [][\A p \in Talkers :
         (/\ Reconnect(p, p)
          /\ p \in DOMAIN server_players
          /\ server_players[p].dropped
          /\ ~server_players[p].connected
          /\ ~server_players[p].expired)
         => (/\ result' = "Ok"
             /\ server_players'[p].connected
             /\ [to |-> p, frame |-> Frame("GameState", 0)] \in tasks'
             /\ server_players'[p].chips = server_players[p].chips
             /\ game'.players[KeyOf(p)].chips = game.players[KeyOf(p)].chips)]_vars

-----------------------------------------------------------------------------
(* Properties of the read loop *)

\* C20: a token-bucket denial never ends the connection: when the bucket
\* denies a frame or an action, one Error frame is sent to the player and the
\* handler goes on reading frames from the connection.
C20_DenialKeepsTheConnection ==
    [][\A c \in Limited, elapsed \in Elapsed :
         (/\ ~allow(tokens[c], elapsed).ok
          /\ \/ \E type \in FrameTypes : ReadFrame(c, type, elapsed)
             \/ HandleActionFrame(c, elapsed))
         => (/\ pc'[c] \in {"read", "handle_connect", "handle_action"}
             /\ [to |-> c, frame |-> Frame("Error", 0)] \in tasks')]_vars

\* C21: the action rate limit as one connection sees it: from the full bucket
\* every Action frame of a burst sent with no second gone by, up to as many
\* frames as the bucket holds tokens, is read and admitted to the engine.
C21_BurstOfCapacityIsAdmitted ==
    [][\A c \in Limited :
         /\ (/\ ReadFrame(c, "Action", 0)
             /\ burst[c] >= 0
             /\ burst[c] < MaxTokens)
            => pc'[c] = "handle_action"
         /\ (/\ HandleActionFrame(c, 0)
             /\ burst[c] >= 1
             /\ burst[c] <= MaxTokens)
            => pc'[c] # "read" \/ emitted' = emitted + 1]_vars

-----------------------------------------------------------------------------
(* Properties of signed messages *)

\* C22: replay protection: a nonce that was accepted less than 60 s ago is
\* rejected as a duplicate, however many other nonces were presented since; a
\* nonce last accepted 60 s ago or earlier is accepted again.
C22_ReplayWithinExpiryRejected ==
    [][\A offset \in Offsets, nonce \in Nonces, payload \in Payloads :
         (/\ Verify(offset, nonce, payload)
          /\ verified' # "MessageExpired"
          /\ nonce \in DOMAIN accepted_at)
         => IF now - accepted_at[nonce] < NONCE_EXPIRY_MS
            THEN verified' = "DuplicateNonce"
            ELSE verified' # "DuplicateNonce"]_vars

\* C23: freshness is two-sided: verification fails with MessageExpired
\* whenever the envelope's timestamp lies more than 30 s from the server
\* clock, in the past or in the future.
C23_FreshnessIsTwoSided ==
    [][\A offset \in Offsets, nonce \in Nonces, payload \in Payloads :
         (/\ Verify(offset, nonce, payload)
          /\ (offset > MESSAGE_TIMESTAMP_MAX_DIFF_MS
              \/ 0 - offset > MESSAGE_TIMESTAMP_MAX_DIFF_MS))
         => verified' = "MessageExpired"]_vars

\* C39: a verification that fails with a bad signature, an expired timestamp
\* or an undecodable payload records nothing in the nonce cache: every entry
\* the cache holds afterwards it held before, with the same instant
C39_FailedVerificationRecordsNoNonce ==
    [][verified' \in {"InvalidSignature", "MessageExpired", "JsonDeserialize"}
       => \A n \in DOMAIN nonce_cache' :
             n \in DOMAIN nonce_cache /\ nonce_cache'[n] = nonce_cache[n]]_vars

-----------------------------------------------------------------------------
(* Properties of main *)

\* C24: shutdown liveness: once the shutdown flag is set, the accept loop
\* eventually exits and main reaches its shutdown sequence, even if no
\* further client ever connects.
C24_ShutdownReachesTheShutdownSequence ==
    shutdown ~> supervisor.pc \in {"draining", "done"}

-----------------------------------------------------------------------------
(* Properties of the evaluator *)

\* The five-card subsets of a hand
FiveOf(cards) == {S \in SUBSET Range(cards) : Cardinality(S) = 5}

\* Standard poker ranking of five cards, as a number: the category, then the
\* ranks in the order that breaks ties (by multiplicity, then by rank; for a
\* straight its highest card alone, the ace of A 2 3 4 5 counting as one)
Standard(S) ==
    LET ranks == {c.rank : c \in S}
        Count(r) == Cardinality({c \in S : c.rank = r})
        Key(r) == Count(r) * 15 + r
        ordered == SortBy(SelectSeq(Ranks, LAMBDA r : r \in ranks), LAMBDA a, b : Key(a) > Key(b))
        counts == [i \in 1..Len(ordered) |-> Count(ordered[i])]
        is_flush == Cardinality({c.suit : c \in S}) = 1
        top == CHOOSE r \in ranks : \A q \in ranks : q <= r
        low == CHOOSE r \in ranks : \A q \in ranks : r <= q
        wheel == ranks = {14, 5, 4, 3, 2}
        is_straight == Cardinality(ranks) = 5 /\ (top - low = 4 \/ wheel)
        category == IF is_straight /\ is_flush THEN 8
                    ELSE IF counts[1] = 4 THEN 7
                    ELSE IF counts[1] = 3 /\ counts[2] = 2 THEN 6
                    ELSE IF is_flush THEN 5
                    ELSE IF is_straight THEN 4
                    ELSE IF counts[1] = 3 THEN 3
                    ELSE IF counts[1] = 2 /\ counts[2] = 2 THEN 2
                    ELSE IF counts[1] = 2 THEN 1
                    ELSE 0
        At(i) == IF is_straight THEN (IF i = 1 THEN (IF wheel THEN 5 ELSE top) ELSE 0)
                 ELSE IF i <= Len(ordered) THEN ordered[i] ELSE 0
    IN  ((((category * 15 + At(1)) * 15 + At(2)) * 15 + At(3)) * 15 + At(4)) * 15 + At(5)

\* The best five-card hand a hand contains
BestFive(cards) ==
    CHOOSE v \in {Standard(S) : S \in FiveOf(cards)} :
        \A w \in {Standard(S) : S \in FiveOf(cards)} : w <= v

\* C25: hand evaluation is correct for 5 to 7 cards: eval(A) <= eval(B) under
\* the (category, primary, tiebreakers) order iff the best five-card hand in A
\* is no stronger than the best five-card hand in B; a hand with A 2 3 4 5 6
\* is a six-high straight and six suited cards holding five consecutive ranks
\* are a straight flush.
C25_EvaluationOrdersHandsAsPokerDoes ==
    returned # << >>
    => (~EvalLess(returned[2], returned[1])
        <=> BestFive(args[1]) <= BestFive(args[2]))

-----------------------------------------------------------------------------
(* Properties of calculate_side_pots *)

\* The players of a table that have not folded, and the bet levels among them,
\* from the lowest up
Staying(g) == {id \in DOMAIN g.players : ~g.players[id].is_folded}
Levels(g) ==
    SelectSeq([i \in 1..(BIG_BLIND + BIG_BLIND + SMALL_BLIND + 1) |-> i - 1],
              LAMBDA b : \E id \in Staying(g) : g.players[id].current_bet = b)

\* C26: calculate_side_pots peels layers correctly: each returned pot's
\* eligibility set is exactly the non-folded players whose current_bet is at
\* least that layer's bet level, its amount is (layer bet - previous layer
\* bet) x (size of its eligibility set), and the amounts of all pots sum to
\* the sum of current_bet over the non-folded players.
C26_SidePotsAreTheLayers ==
    returned # << >> =>
        LET pots == returned.side_pots
            levels == Levels(args)
            Previous(k) == IF k = 1 THEN 0 ELSE levels[k - 1]
            AtLeast(k) == {id \in Staying(args) : args.players[id].current_bet >= levels[k]}
        IN  /\ Len(pots) = Len(levels)
            /\ \A k \in 1..Len(pots) :
                 /\ Range(pots[k].eligible) = AtLeast(k)
                 /\ Len(pots[k].eligible) = Cardinality(AtLeast(k))
                 /\ pots[k].amount = (levels[k] - Previous(k)) * Cardinality(AtLeast(k))
            /\ SumSeq([k \in 1..Len(pots) |-> pots[k].amount])
                 = SumSeq([i \in 1..Len(args.order) |->
                            IF args.order[i] \in Staying(args)
                            THEN args.players[args.order[i]].current_bet ELSE 0])

\* three layers have been peeled: three players on three levels above zero
C26_Witness ==
    /\ returned # << >>
    /\ Len(returned.side_pots) = 3
    /\ returned.side_pots[1].amount > 0
    /\ Len(returned.side_pots[3].eligible) = 1

\* C27: chips contributed by players who later folded are not lost at
\* showdown: they are included in the side-pot layers, so the amounts of the
\* side pots computed at showdown sum to the total contributed by all
\* players, folded or not.
C27_FoldedChipsStayInThePots ==
    returned # << >> =>
        SumSeq([k \in 1..Len(returned.side_pots) |-> returned.side_pots[k].amount])
          = SumSeq([i \in 1..Len(args.order) |-> args.players[args.order[i]].current_bet])

-----------------------------------------------------------------------------
(* Properties of the split of a pot *)

\* The winners that are eligible for the pot split
PotWinners == {w \in Range(args.winners) : w \in Range(args.pot.eligible)}

\* C28: split of one pot among k >= 1 winners: every winner receives
\* floor(amount / k) chips, the first (amount mod k) winners in iteration
\* order one chip more, so two winners' shares differ by at most 1 and the
\* shares sum exactly to the pot's amount.
C28_SplitIsEvenAndExact ==
    (returned # << >> /\ PotWinners # {}) =>
        LET shares == returned.distributed
            k == Cardinality(PotWinners)
            floor == CHOOSE q \in 0..MaxSplit + 1 : q * k <= args.pot.amount /\ args.pot.amount < (q + 1) * k
        IN  /\ Len(shares) = k
            /\ {shares[i].winner_id : i \in 1..k} = PotWinners
            /\ \A i \in 1..k :
                 shares[i].winnings = floor + (IF i <= args.pot.amount - floor * k THEN 1 ELSE 0)
            /\ \A i, j \in 1..k : shares[i].winnings - shares[j].winnings <= 1
            /\ \A i \in 1..k :
                 shares[i].winner_id = SelectSeq(args.winners, LAMBDA w : w \in PotWinners)[i]
            /\ SumSeq([i \in 1..k |-> shares[i].winnings]) = args.pot.amount

\* a pot that does not divide evenly has been split among three winners
C28_Witness ==
    /\ returned # << >>
    /\ Len(returned.distributed) = 3
    /\ args.pot.amount % 3 = 2
    /\ returned.distributed[2].winnings > returned.distributed[3].winnings

-----------------------------------------------------------------------------
(* Properties of showdown *)

\* C29: showdown ties follow the total order on evaluations: two players
\* share a pot only if their evaluations are equal in category, primary rank
\* and tiebreakers; a player whose evaluation has the best hand's category and
\* tiebreakers but a lower primary rank is not a winner.
C29_WinnersHoldEqualHands ==
    returned # << >> =>
        \A a, b \in Range(returned.settled.winners) :
            /\ returned.settled.evals[a].rank = returned.settled.evals[b].rank
            /\ returned.settled.evals[a].primary_rank = returned.settled.evals[b].primary_rank
            /\ returned.settled.evals[a].tiebreakers = returned.settled.evals[b].tiebreakers

-----------------------------------------------------------------------------
(* Properties of the evaluator as a function of the card set *)

\* C35: two evaluations of the same cards, in the same or in another order,
\* yield the same category, primary rank and tiebreakers
C35_EvaluationIsAFunctionOfTheCards ==
    returned # << >> => returned[1] = returned[2]

-----------------------------------------------------------------------------
(* Properties of the seat bookkeeping *)

\* C38: a player has an entry in player_sessions for the table iff the player
\* is one of the players of the table's game
C38_SessionsAreTheGamePlayers ==
    \A p \in Talkers : p \in player_sessions <=> KeyOf(p) \in DOMAIN game.players

-----------------------------------------------------------------------------
(* Properties of TokenBucketRateLimiter::allow under concurrent callers *)

\* C40: the stored token count never exceeds max_tokens, and the calls
\* admitted so far are at most max_tokens + refill_rate x the whole seconds
\* gone by since the limiter was created
C40_AdmissionsWithinTheBudget ==
    /\ bucket.tokens <= bucket.max_tokens
    /\ admitted <= bucket.max_tokens + bucket.refill_rate * (wall \div 1000)

=============================================================================
